---- MODULE Spec2Model ----
(***************************************************************************)
(* Liver extraction pipeline (sim1-99/liver): the command-line entry       *)
(* point LiverExtraction.__main__, the volume I/O helpers                  *)
(* read_zipped_nifti / write_volume, find_biggest_mask, the radius-based   *)
(* preprocessing filters, evaluate, the seed-selection functions,          *)
(* sigmoid_filter and the two stages one_seed_rg.main and                  *)
(* multi_seed_rg.main.                                                     *)
(*                                                                         *)
(* Every pixel-level operation is an external library call (SimpleITK,     *)
(* OpenCV, medpy).  Such a call is modelled by its outcome: it returns a   *)
(* value or raises.  What the repository itself does (sequencing, name     *)
(* building, argument checks, loops, arithmetic on counts) is modelled     *)
(* statement by statement.                                                 *)
(*                                                                         *)
(* The module holds several specifications over one set of variables;      *)
(* each leaves the variables of the other parts unchanged:                 *)
(*   Spec        a run of __main__.main                                    *)
(*   SpecRead    two concurrent invocations of read_zipped_nifti           *)
(*   SpecWrite   write_volume                                              *)
(*   SpecFBM     find_biggest_mask                                         *)
(*   SpecFilter  the radius-based filters                                  *)
(*   SpecEval    evaluate                                                  *)
(*   SpecMethods find_centroid, pick_random_pixels, create_seed_list       *)
(*   SpecSigmoid sigmoid_filter                                            *)
(*   SpecStage1  one_seed_rg.main                                          *)
(*   SpecStage2  multi_seed_rg.main                                        *)
(*   SpecSeeding the seed-selection functions, alone or called by stage 2   *)
(***************************************************************************)
EXTENDS Integers, Sequences, FiniteSets, TLC

VARIABLES
    \* ---- __main__.main
    caller,        \* who runs main: the console script, or a caller that
                   \* replaced parse_args by a stub returning a namespace
    args,          \* the namespace main works on
    env,           \* what the run finds on disk and what the filters do
    pc,            \* position of main
    locals,        \* main's local variables ("unbound" until assigned)
    calls,         \* the calls main has made and that returned or raised
    files,         \* file names written by the run, in order
    error,         \* the exception that ended the run, "none" otherwise
    \* ---- read_zipped_nifti (two invocations sharing ~/liver/temp)
    rin,           \* per invocation: what its archive holds
    rpc,           \* per invocation: position
    rerr,          \* per invocation: the exception raised, "none" otherwise
    temp,          \* ~/liver/temp: [exists, data]; data maps a member name to
                   \* the file of that name, [present, chunks]
    written,       \* per invocation: the chunks its copy has written
    entries,       \* per invocation: the names its rmtree has listed and
                   \* not yet unlinked
    removedBeforeRead,  \* history, per invocation: the other invocation
                   \* removed the directory while this one stood between
                   \* its extract and its read
    \* ---- write_volume
    wcall,         \* the call: [output_file_name, save_binary]
    wres,          \* its outcome: [state, name, exc]
    \* ---- find_biggest_mask
    img,           \* the thresholded stack: a sequence of slices
    slice,         \* loop variable
    biggest_mask_area,
    biggest_mask_slice_idx,
    fpc,           \* "loop" while scanning, "returned" after the return
    \* ---- radius-based filters
    fcall,         \* [filter, radius, iters]
    fres,          \* [state, executed, exc]
    \* ---- evaluate
    ecall,         \* [seg, gt]: two label volumes
    eres,          \* [state, params, exc]
    \* ---- find_centroid, pick_random_pixels, create_seed_list
    mcall,         \* [fn, img, number_of_pixels, x_pixels, y_pixels, slice_idx]
    mlog,          \* the outcomes of the calls made so far: [exc, label, value]
    \* the generator that the name rng of pick_random_pixels was bound to
    \* by the last call, in the state in which that call left it
    bitgen,
    \* ---- sigmoid_filter
    sgcall,        \* [img, slice_idx, pixel]
    sgres,         \* [state, roi, alpha, beta, output_minimum,
                   \* output_maximum, exc]
    \* ---- one_seed_rg.main
    s1in,          \* input_volume
    s1gt,          \* ground_truth
    s1pc,          \* position of one_seed_rg.main
    s1loc,         \* its local variables: of an image the chain of filters it
                   \* went through and, up to find_centroid, its samples
    s1stack,       \* the thresholded stack find_centroid worked on
    s1calls,       \* the calls made so far, in order
    s1res,         \* [state, rg_seg, slice_of_the_largest_mask, exc]
    \* ---- multi_seed_rg.main
    \* [slice_where_to_pick_seeds, eroded]: the slice index and what the
    \* erosion leaves of that slice
    s2in,
    s2pc,          \* position of multi_seed_rg.main
    s2loc,         \* its local variables; an image is a chain of filters
    s2calls,       \* the calls made so far, in order
    s2res          \* [state, seg_volume, rg_seg, exc]

mainVars == <<caller, args, env, pc, locals, calls, files, error>>
readVars == <<rin, rpc, rerr, temp, written, entries, removedBeforeRead>>
writeVars == <<wcall, wres>>
fbmVars == <<img, slice, biggest_mask_area, biggest_mask_slice_idx, fpc>>
filterVars == <<fcall, fres>>
evalVars == <<ecall, eres>>
methodsVars == <<mcall, mlog, bitgen>>
sigmoidVars == <<sgcall, sgres>>
stage1Vars == <<s1in, s1gt, s1pc, s1loc, s1stack, s1calls, s1res>>
stage2Vars == <<s2in, s2pc, s2loc, s2calls, s2res>>
vars == <<mainVars, readVars, writeVars, fbmVars, filterVars, evalVars, methodsVars, sigmoidVars, stage1Vars,
         stage2Vars>>

\* the variables a part leaves alone
notMain == <<readVars, writeVars, fbmVars, filterVars, evalVars,
    methodsVars,
    sigmoidVars,
    stage1Vars,
    stage2Vars>>
notMainNorEval == <<readVars, writeVars, fbmVars, filterVars,
    methodsVars,
    sigmoidVars,
    stage1Vars,
    stage2Vars>>
notRead == <<mainVars, writeVars, fbmVars, filterVars, evalVars,
    methodsVars,
    sigmoidVars,
    stage1Vars,
    stage2Vars>>
notWrite == <<mainVars, readVars, fbmVars, filterVars, evalVars,
    methodsVars,
    sigmoidVars,
    stage1Vars,
    stage2Vars>>
notFbm == <<mainVars, readVars, writeVars, filterVars, evalVars,
    methodsVars,
    sigmoidVars,
    stage1Vars,
    stage2Vars>>
notFilter == <<mainVars, readVars, writeVars, fbmVars, evalVars,
    methodsVars,
    sigmoidVars,
    stage1Vars,
    stage2Vars>>
notEval == <<mainVars, readVars, writeVars, fbmVars, filterVars,
    methodsVars,
    sigmoidVars,
    stage1Vars,
    stage2Vars>>
notMethods == <<mainVars, readVars, writeVars,
    fbmVars,
    filterVars,
    evalVars,
    sigmoidVars,
    stage1Vars,
    stage2Vars>>
notSigmoid == <<mainVars, readVars, writeVars,
    fbmVars,
    filterVars,
    evalVars,
    methodsVars,
    stage1Vars,
    stage2Vars>>
notStage1 == <<mainVars, readVars, writeVars,
    fbmVars,
    filterVars,
    evalVars,
    methodsVars,
    sigmoidVars,
    stage2Vars>>
notStage2 == <<mainVars, readVars, writeVars,
    fbmVars,
    filterVars,
    evalVars,
    methodsVars,
    sigmoidVars,
    stage1Vars>>

(***************************************************************************)
(* File names.  A name is a sequence of one-character strings, so that     *)
(* str.split('.') and '+' are computed, not assumed.                       *)
(***************************************************************************)
MaxNameLen == 3

Alphabet == {"o", "n", "."}

SeqsUpTo(S, n) == UNION {[1..k -> S] : k \in 0..n}

FileNames == SeqsUpTo(Alphabet, MaxNameLen) \ {<<>>}

\* the literal '_binary', kept as one token
BinaryTag == <<"_binary">>

\* index of the first '.' of s, 0 when there is none
RECURSIVE FirstDot(_, _)
FirstDot(s, i) ==
    IF i > Len(s) THEN 0
    ELSE IF s[i] = "." THEN i
    ELSE FirstDot(s, i + 1)

\* str.split('.'): the pieces between the dots, empty pieces included
RECURSIVE Split(_)
Split(s) ==
    LET d == FirstDot(s, 1) IN
    IF d = 0 THEN <<s>>
    ELSE <<SubSeq(s, 1, d - 1)>> \o Split(SubSeq(s, d + 1, Len(s)))

(***************************************************************************)
(* write_volume (LiverExtraction/modules/utils.py)                         *)
(***************************************************************************)

\* the name handed to writer.SetFileName, or the exception raised while
\* building it: with save_binary the name is split at its dots and pieces 0
\* and 1 are concatenated around '_binary' (piece 1 missing: IndexError)
WriteVolumeName(output_file_name, save_binary) ==
    IF save_binary
    THEN LET pieces == Split(output_file_name) IN
         IF Len(pieces) < 2
         THEN [exc |-> "IndexError", name |-> <<>>]
         ELSE LET file_name == pieces[1]
                  file_format == pieces[2]
              IN [exc |-> "none", name |-> file_name \o BinaryTag \o file_format]
    ELSE [exc |-> "none", name |-> output_file_name]

WriteInit ==
    /\ wcall \in [output_file_name : FileNames, save_binary : BOOLEAN]
    /\ wres = [state |-> "called", name |-> <<>>, exc |-> "none"]

\* one call of write_volume: build the name, then writer.Execute(img), which
\* writes the file or raises
WriteVolume ==
    /\ wres.state = "called"
    /\ LET n == WriteVolumeName(wcall.output_file_name, wcall.save_binary) IN
       IF n.exc # "none"
       THEN wres' = [state |-> "raised", name |-> <<>>, exc |-> n.exc]
       ELSE \E ok \in BOOLEAN :
              wres' = IF ok
                      THEN [state |-> "written", name |-> n.name, exc |-> "none"]
                      ELSE [state |-> "raised", name |-> n.name,
                            exc |-> "RuntimeError"]
    /\ UNCHANGED wcall
    /\ UNCHANGED notWrite

(***************************************************************************)
(* Radius-based filters (LiverExtraction/modules/preprocessing.py)         *)
(***************************************************************************)
MaxRadius == 3
MaxIters == 2

Filters ==
    {"binary_closing", "binary_closing_br", "binary_opening", "erode",
     "mean_filter"}

\* the test with < in place of <=
RadiusNegative(radius) == radius < 0

\* the test `if radius <= 0: raise ValueError(...)` shared by the five filters
RadiusRejected(radius) == radius <= 0

\* number of passes of `for iter in range(iters)`
RangeLen(iters) == IF iters > 0 THEN iters ELSE 0

\* number of filter.Execute calls a filter makes when none of them raises:
\* erode runs range(iters) passes, the others one
ExecutePasses(f, iters) == IF f = "erode" THEN RangeLen(iters) ELSE 1

FilterInit ==
    /\ fcall \in {c \in [filter : Filters, radius : -MaxRadius..MaxRadius,
                         iters : -1..MaxIters] :
                    c.filter # "erode" => c.iters = 1}
    /\ fres = [state |-> "called", executed |-> 0, exc |-> "none"]

\* one call of a radius-based filter.  The radius test comes first; then the
\* passes run, each an external Execute that returns an image or raises
\* (the k-th Execute raises)
FilterCall ==
    /\ fres.state = "called"
    /\ IF RadiusRejected(fcall.radius)
       THEN fres' = [state |-> "raised", executed |-> 0, exc |-> "ValueError"]
       ELSE LET n == ExecutePasses(fcall.filter, fcall.iters) IN
            \/ fres' = [state |-> "returned", executed |-> n, exc |-> "none"]
            \/ \E k \in 1..n :
                 fres' = [state |-> "raised", executed |-> k,
                          exc |-> "RuntimeError"]
    /\ UNCHANGED fcall
    /\ UNCHANGED notFilter

(***************************************************************************)
(* find_biggest_mask (liver/modules/methods.py)                            *)
(* A stack is a sequence of slices, a slice a sequence of pixel values;    *)
(* the code's slice index i is element i + 1 of the sequence.              *)
(***************************************************************************)
MaxSlices == 3
PixelsPerSlice == 2

\* a thresholded image holds the outside value 0 and the inside value 1
PixelValues == {0, 1}

Slices == [1..PixelsPerSlice -> PixelValues]

Stacks == UNION {[1..k -> Slices] : k \in 1..MaxSlices}

RECURSIVE CountFrom(_, _)
CountFrom(s, i) ==
    IF i > Len(s) THEN 0
    ELSE (IF s[i] # 0 THEN 1 ELSE 0) + CountFrom(s, i + 1)

\* np.count_nonzero of one slice
CountNonzero(np_img) == CountFrom(np_img, 1)

\* len() of a SimpleITK image: its number of pixels
RECURSIVE PixelsFrom(_, _)
PixelsFrom(stack, i) ==
    IF i > Len(stack) THEN 0 ELSE Len(stack[i]) + PixelsFrom(stack, i + 1)

\* int(len(img)/len(img[:, :, 0]))
NumSlices(stack) == PixelsFrom(stack, 1) \div Len(stack[1])

\* the test with >= in place of >
IsBiggerOrEqual(count, area) == count >= area

\* the test of the loop body: `count_nonzero(np_img) > biggest_mask_area`
IsBigger(count, area) == count > area

FbmInit ==
    /\ img \in Stacks
    /\ slice = 0
    /\ biggest_mask_area = 0
    /\ biggest_mask_slice_idx = 0
    /\ fpc = "loop"

\* one pass of `for slice in range(num_slices)`
FbmIter ==
    /\ fpc = "loop"
    /\ slice < NumSlices(img)
    /\ LET np_img == img[slice + 1] IN
       IF IsBigger(CountNonzero(np_img), biggest_mask_area)
       THEN /\ biggest_mask_area' = CountNonzero(np_img)
            /\ biggest_mask_slice_idx' = slice
       ELSE UNCHANGED <<biggest_mask_area, biggest_mask_slice_idx>>
    /\ slice' = slice + 1
    /\ UNCHANGED <<img, fpc>>
    /\ UNCHANGED notFbm

\* `return biggest_mask_slice_idx` once the range is exhausted
FbmReturn ==
    /\ fpc = "loop"
    /\ slice >= NumSlices(img)
    /\ fpc' = "returned"
    /\ UNCHANGED <<img, slice, biggest_mask_area, biggest_mask_slice_idx>>
    /\ UNCHANGED notFbm

(***************************************************************************)
(* evaluate (LiverExtraction/modules/evaluate.py)                          *)
(* A volume is a row of NumVoxels labels.  Metric values are exact         *)
(* fractions n/d in lowest terms, or nan: records [nan, n, d].             *)
(***************************************************************************)
NumVoxels == 3

\* ground-truth labels: 0 background, 1 liver, 2 tumor
Labels == {0, 1, 2}

SegVolumes == [1..NumVoxels -> {0, 1}]
GtVolumes == [1..NumVoxels -> Labels]

RECURSIVE Gcd(_, _)
Gcd(a, b) == IF b = 0 THEN a ELSE Gcd(b, a % b)

Abs(x) == IF x < 0 THEN -x ELSE x

\* the fraction n/d (d # 0) in lowest terms with a positive denominator
Frac(n, d) ==
    LET g == Gcd(Abs(n), Abs(d))
        sgn == IF d < 0 THEN -1 ELSE 1
    IN [nan |-> FALSE, n |-> sgn * (n \div g), d |-> sgn * (d \div g)]

NaN == [nan |-> TRUE, n |-> 0, d |-> 1]

FracAdd(x, y) == Frac(x.n * y.d + y.n * x.d, x.d * y.d)

RECURSIVE SumFrom(_, _)
SumFrom(s, i) == IF i > Len(s) THEN 0 ELSE s[i] + SumFrom(s, i + 1)

\* array.sum()
ArraySum(a) == SumFrom(a, 1)

\* `gt != 0`: every labelled voxel kept, tumor included
KeepAnyLabel(gt) == [i \in DOMAIN gt |-> IF gt[i] # 0 THEN 1 ELSE 0]

\* `gt == 1`: 1 where the label is 1, 0 elsewhere
KeepLabelOne(gt) == [i \in DOMAIN gt |-> IF gt[i] = 1 THEN 1 ELSE 0]

LogicalAnd(a, b) == [i \in DOMAIN a |-> IF a[i] # 0 /\ b[i] # 0 THEN 1 ELSE 0]
LogicalOr(a, b) == [i \in DOMAIN a |-> IF a[i] # 0 \/ b[i] # 0 THEN 1 ELSE 0]

\* the overlap in place of the overlap error: 100 * and.sum() / or.sum()
VoeOverlap(seg, gt) ==
    LET i == ArraySum(LogicalAnd(seg, gt))
        u == ArraySum(LogicalOr(seg, gt))
    IN IF u = 0 THEN NaN ELSE Frac(100 * i, u)

\* 100 * (1. - and.sum() / float(or.sum())): a numpy scalar division, which
\* yields nan (with a warning) instead of raising when the divisor is 0
Voe(seg, gt) ==
    LET i == ArraySum(LogicalAnd(seg, gt))
        u == ArraySum(LogicalOr(seg, gt))
    IN IF u = 0 THEN NaN ELSE Frac(100 * (u - i), u)

\* the division done on numpy scalars: nan in place of the exception
RvdNumpy(seg, gt) ==
    [exc |-> "none",
     value |-> IF ArraySum(gt) = 0 THEN NaN
               ELSE Frac(100 * Abs(ArraySum(seg) - ArraySum(gt)),
                         ArraySum(gt))]

\* 100 * abs((float(seg.sum()) - float(gt.sum())) / float(gt.sum())): a
\* division of Python floats, which raises ZeroDivisionError on divisor 0
Rvd(seg, gt) ==
    IF ArraySum(gt) = 0
    THEN [exc |-> "ZeroDivisionError", value |-> NaN]
    ELSE [exc |-> "none",
          value |-> Frac(100 * Abs(ArraySum(seg) - ArraySum(gt)),
                         ArraySum(gt))]

\* medpy dc: 2 |A n B| / (|A| + |B|), 0.0 when both are empty
Dice(seg, gt) ==
    LET i == ArraySum(LogicalAnd(seg, gt))
        t == CountNonzero(seg) + CountNonzero(gt)
    IN IF t = 0 THEN Frac(0, 1) ELSE Frac(2 * i, t)

\* medpy jc: float(|A n B|) / float(|A u B|), a division of Python floats,
\* which raises ZeroDivisionError when both masks are empty
Jaccard(seg, gt) ==
    LET i == ArraySum(LogicalAnd(seg, gt))
        u == ArraySum(LogicalOr(seg, gt))
    IN IF u = 0
       THEN [exc |-> "ZeroDivisionError", value |-> NaN]
       ELSE [exc |-> "none", value |-> Frac(i, u)]

\* A row is an image of 1 x 1 x NumVoxels samples.  The surface of a mask
\* is mask ^ binary_erosion(mask) with the 6-neighbour cross; samples
\* outside the image count as background, and every voxel of such an image
\* has neighbours outside it on x and on y: the erosion leaves nothing and
\* every voxel of the mask is a surface voxel
Border(m) == {i \in DOMAIN m : m[i] # 0}

Min(S) == CHOOSE x \in S : \A y \in S : x <= y

RECURSIVE SumOver(_, _)
SumOver(S, B) ==
    IF S = {} THEN 0
    ELSE LET i == CHOOSE x \in S : TRUE
         IN Min({Abs(i - j) : j \in B}) + SumOver(S \ {i}, B)

\* the connected object of mask m that holds voxel i
ObjectAt(m, i) ==
    {j \in DOMAIN m :
       \A k \in (IF i < j THEN i .. j ELSE j .. i) : m[k] # 0}

\* scipy.ndimage.label: the connected objects of a mask, numbered from 1 in
\* the order of their first voxel
LabelObjects(m) ==
    LET objs == {ObjectAt(m, i) : i \in {k \in DOMAIN m : m[k] # 0}}
    IN  [l \in 1 .. Cardinality(objs) |->
           CHOOSE o \in objs :
             Cardinality({q \in objs : Min(q) < Min(o)}) = l - 1]

\* an object as a mask of its own
ObjectMask(m, object) == [i \in DOMAIN m |-> IF i \in object THEN 1 ELSE 0]

\* the first loop of medpy's __distinct_binary_object_correspondences, from
\* object l1id of labelmap2 on: an object that meets exactly one object of
\* labelmap1 is paired with it unless that one is taken; an object that
\* meets several is kept for later
RECURSIVE PairOneToOne(_, _, _, _)
PairOneToOne(labelmap1, labelmap2, l1id, found) ==
    IF l1id > Len(labelmap2) THEN found
    ELSE LET l2ids == {l \in DOMAIN labelmap1 :
                         labelmap1[l] \cap labelmap2[l1id] # {}}
         IN  PairOneToOne(labelmap1, labelmap2, l1id + 1,
               IF Cardinality(l2ids) = 1
               THEN IF l2ids \cap found.used_labels = {}
                    THEN [found EXCEPT
                            !.mapping = @ \cup {<<l1id, Min(l2ids)>>},
                            !.used_labels = @ \cup l2ids]
                    ELSE found
               ELSE IF Cardinality(l2ids) > 1
                    THEN [found EXCEPT
                            !.one_to_many =
                               Append(@, [l1id |-> l1id, l2ids |-> l2ids])]
                    ELSE found)

\* sorted(one_to_many, key=lambda x: len(x[1])): a stable sort
SortedByLen(s) ==
    LET place(k) ==
          1 + Cardinality({j \in DOMAIN s :
                             \/ Cardinality(s[j].l2ids)
                                  < Cardinality(s[k].l2ids)
                             \/ /\ Cardinality(s[j].l2ids)
                                     = Cardinality(s[k].l2ids)
                                /\ j < k})
    IN  [i \in DOMAIN s |-> s[CHOOSE k \in DOMAIN s : place(k) = i]]

\* its while loop: the labels taken are removed from every set, the empty
\* sets dropped, the rest sorted by size; the first is paired with the label
\* its set pops (of a set of small integers CPython pops the smallest)
RECURSIVE PairOneToMany(_, _, _)
PairOneToMany(one_to_many, mapping, used_labels) ==
    LET removed == [k \in DOMAIN one_to_many |->
                      [one_to_many[k] EXCEPT !.l2ids = @ \ used_labels]]
        sorted == SortedByLen(SelectSeq(removed, LAMBDA x : x.l2ids # {}))
    IN  IF Len(sorted) = 0 THEN mapping
        ELSE LET l2id == Min(sorted[1].l2ids)
             IN  PairOneToMany(Tail(sorted),
                               mapping \cup {<<sorted[1].l1id, l2id>>},
                               used_labels \cup {l2id})

\* the pairs <<object of labelmap2, object of labelmap1>> that correspond
Correspondences(labelmap1, labelmap2) ==
    LET found == PairOneToOne(labelmap1, labelmap2, 1,
                              [mapping |-> {}, used_labels |-> {},
                               one_to_many |-> <<>>])
    IN  PairOneToMany(found.one_to_many, found.mapping, found.used_labels)

\* the surface distances of the paired objects: their sum and their number
RECURSIVE SurfaceDistances(_, _, _, _, _)
SurfaceDistances(mapping, result, labelmap1, reference, labelmap2) ==
    IF mapping = {} THEN [sum |-> 0, len |-> 0]
    ELSE LET pair == CHOOSE x \in mapping : TRUE
             object1 == Border(ObjectMask(result, labelmap1[pair[2]]))
             object2 == Border(ObjectMask(reference, labelmap2[pair[1]]))
             rest == SurfaceDistances(mapping \ {pair}, result, labelmap1,
                                      reference, labelmap2)
         IN  [sum |-> SumOver(object1, object2) + rest.sum,
              len |-> Cardinality(object1) + rest.len]

\* medpy obj_asd: the mean distance from the surface of each object of a
\* to the surface of the object of b it corresponds to; numpy.mean of no
\* distance at all is nan.  evaluate reads it through obj_assd only, which
\* takes both directions.
Asd(a, b) ==
    LET labelmap1 == LabelObjects(a)
        labelmap2 == LabelObjects(b)
        sds == SurfaceDistances(Correspondences(labelmap1, labelmap2),
                                a, labelmap1, b, labelmap2)
    IN  IF sds.len = 0 THEN NaN ELSE Frac(sds.sum, sds.len)

\* medpy obj_assd: the mean of the two directed object-wise distances
Assd(seg, gt) ==
    IF Asd(seg, gt).nan \/ Asd(gt, seg).nan THEN NaN
    ELSE LET s == FracAdd(Asd(seg, gt), Asd(gt, seg))
         IN Frac(s.n, 2 * s.d)

\* evaluate(seg, gt): the list it returns, or the exception it raises; the
\* metrics are computed in the order voe, rvd, dice, jaccard, assd and the
\* first exception ends the call
Evaluate(seg, gt0) ==
    LET gt == KeepLabelOne(gt0)
        voe == Voe(seg, gt)
        rvd == Rvd(seg, gt)
        jaccard == Jaccard(seg, gt)
    IN IF rvd.exc # "none"
       THEN [exc |-> rvd.exc, params |-> <<>>]
       ELSE IF jaccard.exc # "none"
       THEN [exc |-> jaccard.exc, params |-> <<>>]
       ELSE [exc |-> "none",
             params |-> <<voe, rvd.value, Dice(seg, gt), jaccard.value,
                          Assd(seg, gt)>>]

EvalInit ==
    /\ ecall \in [seg : SegVolumes, gt : GtVolumes]
    /\ eres = [state |-> "called", params |-> <<>>, exc |-> "none"]

\* one call of evaluate
EvaluateCall ==
    /\ eres.state = "called"
    /\ LET r == Evaluate(ecall.seg, ecall.gt) IN
       eres' = [state |-> IF r.exc = "none" THEN "returned" ELSE "raised",
                params |-> r.params, exc |-> r.exc]
    /\ UNCHANGED ecall
    /\ UNCHANGED notEval

(***************************************************************************)
(* read_zipped_nifti (LiverExtraction/modules/utils.py)                    *)
(* Two invocations run concurrently; each works on the same directory      *)
(* ~/liver/temp.  An invocation's input says what it will find: whether    *)
(* its archive exists, the member name it asks for, and what the archive   *)
(* holds under that name.                                                  *)
(***************************************************************************)
Invocations == {1, 2}

MemberNames == {"vol", "seg"}

\* what an archive holds under the requested name
Contents == {"absent", "garbage", "nifti"}

ReadInputs == [archive : BOOLEAN, file_name : MemberNames, content : Contents]

\* no file of that name
NoFile == [present |-> FALSE, chunks |-> <<>>]

\* a file of these chunks
File(chunks) == [present |-> TRUE, chunks |-> chunks]

NoData == [m \in MemberNames |-> NoFile]

\* the size of a member, in chunks of the 65536 bytes copyfileobj writes at
\* a time
MemberChunks == 2

\* the file that holds a whole member and nothing else
Member(content) == File([i \in 1 .. MemberChunks |-> content])

ReadInit ==
    /\ rin \in [Invocations -> ReadInputs]
    /\ rpc = [p \in Invocations |-> "extract"]
    /\ rerr = [p \in Invocations |-> "none"]
    /\ temp = [exists |-> FALSE, data |-> NoData]
    /\ written = [p \in Invocations |-> 0]
    /\ entries = [p \in Invocations |-> {}]
    /\ removedBeforeRead = [p \in Invocations |-> FALSE]

\* the invocation goes on at `then`
ReadStep(p, then) ==
    /\ rpc' = [rpc EXCEPT ![p] = then]
    /\ UNCHANGED rerr

\* the invocation ends with exception exc
ReadRaise(p, exc) ==
    /\ rpc' = [rpc EXCEPT ![p] = "failed"]
    /\ rerr' = [rerr EXCEPT ![p] = exc]

\* the file temp_dir/file_name gets the content
ExtractInto(t, file_name, content) ==
    [t EXCEPT !.data[file_name] = content]

\* `with zipfile.ZipFile(myzip_path) as myzip:` and the getinfo(member) that
\* extract starts with: FileNotFoundError when the archive is missing,
\* KeyError when it has no such member, in both cases before anything is
\* written
ZipFileGetInfo(p) ==
    /\ rpc[p] = "extract"
    /\ IF ~rin[p].archive THEN ReadRaise(p, "FileNotFoundError")
       ELSE IF rin[p].content = "absent" THEN ReadRaise(p, "KeyError")
       ELSE ReadStep(p, "exists")
    /\ UNCHANGED <<rin, temp, written, entries, removedBeforeRead>>
    /\ UNCHANGED notRead

\* extract: `if upperdirs and not os.path.exists(upperdirs):`
PathExists(p) ==
    /\ rpc[p] = "exists"
    /\ ReadStep(p, IF temp.exists THEN "open" ELSE "makedirs")
    /\ UNCHANGED <<rin, temp, written, entries, removedBeforeRead>>
    /\ UNCHANGED notRead

\* extract: `os.makedirs(upperdirs)`, FileExistsError when the directory
\* has appeared since the test
Makedirs(p) ==
    /\ rpc[p] = "makedirs"
    /\ IF temp.exists
       THEN ReadRaise(p, "FileExistsError") /\ UNCHANGED temp
       ELSE ReadStep(p, "open") /\ temp' = [temp EXCEPT !.exists = TRUE]
    /\ UNCHANGED <<rin, written, entries, removedBeforeRead>>
    /\ UNCHANGED notRead

\* extract: `open(targetpath, "wb")` creates the file or empties the one
\* that is there; FileNotFoundError when the directory is gone
OpenTarget(p) ==
    /\ rpc[p] = "open"
    /\ IF ~temp.exists
       THEN ReadRaise(p, "FileNotFoundError") /\ UNCHANGED <<temp, written>>
       ELSE /\ ReadStep(p, "copy")
            /\ temp' = ExtractInto(temp, rin[p].file_name, File(<<>>))
            /\ written' = [written EXCEPT ![p] = 0]
    /\ UNCHANGED <<rin, entries, removedBeforeRead>>
    /\ UNCHANGED notRead

\* a file after the write of chunk k of a member: the file is as long as
\* its last written chunk, what lies between the old end and the chunk is a
\* hole, the chunks behind it stay
WriteChunk(file, k, content) ==
    [i \in 1 .. (IF Len(file) > k THEN Len(file) ELSE k) |->
       IF i = k THEN content
       ELSE IF i <= Len(file) THEN file[i]
       ELSE "hole"]

\* extract: `shutil.copyfileobj(source, target)`, one write of its loop:
\* the next chunk of the member goes to the open file at this invocation's
\* own offset, whatever the other invocation has made of the file since the
\* open.  A file unlinked in the meantime stays unlinked.  After the last
\* chunk the copy is over.
CopyFileObj(p) ==
    LET name == rin[p].file_name
        k == written[p] + 1
    IN  /\ rpc[p] = "copy"
        /\ written' = [written EXCEPT ![p] = k]
        /\ ReadStep(p, IF k = MemberChunks THEN "read" ELSE "copy")
        /\ IF ~temp.data[name].present THEN UNCHANGED temp
           ELSE temp' = ExtractInto(temp, name,
                                    File(WriteChunk(temp.data[name].chunks,
                                                    k, rin[p].content)))
        /\ UNCHANGED <<rin, entries, removedBeforeRead>>
        /\ UNCHANGED notRead

\* myzip.extract(file_name, path=temp_dir), system call by system call
Extract(p) ==
    \/ ZipFileGetInfo(p)
    \/ PathExists(p)
    \/ Makedirs(p)
    \/ OpenTarget(p)
    \/ CopyFileObj(p)

\* a read of the invocation's own copy of the member, which no other
\* invocation can touch
PrivateFile(t, file_name, content) == Member(content)

\* the file sitk.ReadImage is given: temp_dir/file_name, as it is now
ExtractedFile(t, file_name, content) == t.data[file_name]

\* what the NIfTI reader makes of a file: "none" when it returns a volume.
\* A file that is missing, empty, shorter than the member or that does not
\* begin with the header of a volume is refused with RuntimeError.  A whole
\* volume is read.  A file of full length that begins with the header of a
\* volume and goes on with bytes of another member is taken by a reader of
\* uncompressed files, for which any bytes are samples, and refused by a
\* reader of compressed ones: both outcomes are kept.
ReadOutcomes(file) ==
    IF ~file.present THEN {"RuntimeError"}
    ELSE IF file = Member("nifti") THEN {"none"}
    ELSE IF Len(file.chunks) = MemberChunks /\ file.chunks[1] = "nifti"
    THEN {"none", "RuntimeError"}
    ELSE {"RuntimeError"}

\* sitk.ReadImage(temp_dir/file_name, imageIO='NiftiImageIO'): raises when the
\* file is not there or is no NIfTI volume; nothing after it runs then
ReadImage(p) ==
    /\ rpc[p] = "read"
    /\ \E outcome \in ReadOutcomes(ExtractedFile(temp, rin[p].file_name,
                                                  rin[p].content)) :
         IF outcome = "none"
         THEN ReadStep(p, "rmtree")
         ELSE ReadRaise(p, outcome)
    /\ UNCHANGED <<rin, temp, written, entries, removedBeforeRead>>
    /\ UNCHANGED notRead

\* rmtree: `orig_st = os.lstat(path)`, FileNotFoundError when the
\* directory is not there
Lstat(p) ==
    /\ rpc[p] = "rmtree"
    /\ IF ~temp.exists
       THEN ReadRaise(p, "FileNotFoundError")
       ELSE ReadStep(p, "opendir")
    /\ UNCHANGED <<rin, temp, written, entries, removedBeforeRead>>
    /\ UNCHANGED notRead

\* rmtree: `fd = os.open(path, os.O_RDONLY)`, FileNotFoundError when the
\* directory has been removed since the lstat.  (The directory opened is
\* the one lstat saw: once an invocation is in its rmtree only the other
\* one's rmdir can remove the directory, and the other one is then over and
\* creates none.)
OpenDir(p) ==
    /\ rpc[p] = "opendir"
    /\ IF ~temp.exists
       THEN ReadRaise(p, "FileNotFoundError")
       ELSE ReadStep(p, "scandir")
    /\ UNCHANGED <<rin, temp, written, entries, removedBeforeRead>>
    /\ UNCHANGED notRead

\* rmtree: `entries = list(os.scandir(fd))` lists the open directory; one
\* that has been removed since the open lists nothing, without an error
Scandir(p) ==
    /\ rpc[p] = "scandir"
    /\ ReadStep(p, "unlink")
    /\ entries' = [entries EXCEPT
                     ![p] = IF ~temp.exists THEN {}
                            ELSE {m \in MemberNames : temp.data[m].present}]
    /\ UNCHANGED <<rin, temp, written, removedBeforeRead>>
    /\ UNCHANGED notRead

\* rmtree: os.unlink(entry.name, dir_fd=fd) of the entries listed, in the
\* order of the listing (any); FileNotFoundError for an entry that is gone;
\* once none is left the directory is closed and is itself next
Unlink(p) ==
    /\ rpc[p] = "unlink"
    /\ IF entries[p] = {}
       THEN ReadStep(p, "rmdir") /\ UNCHANGED <<temp, entries>>
       ELSE \E m \in entries[p] :
              IF ~temp.data[m].present
              THEN ReadRaise(p, "FileNotFoundError")
                   /\ UNCHANGED <<temp, entries>>
              ELSE /\ ReadStep(p, "unlink")
                   /\ temp' = [temp EXCEPT !.data[m] = NoFile]
                   /\ entries' = [entries EXCEPT ![p] = @ \ {m}]
    /\ UNCHANGED <<rin, written, removedBeforeRead>>
    /\ UNCHANGED notRead

\* rmtree: os.rmdir(path), then `return file`: FileNotFoundError when the
\* directory is gone, OSError (directory not empty) when a file has been
\* put there since the listing
Rmdir(p) ==
    /\ rpc[p] = "rmdir"
    /\ IF ~temp.exists
       THEN /\ ReadRaise(p, "FileNotFoundError")
            /\ UNCHANGED <<temp, removedBeforeRead>>
       ELSE IF temp.data # NoData
       THEN /\ ReadRaise(p, "OSError")
            /\ UNCHANGED <<temp, removedBeforeRead>>
       ELSE /\ ReadStep(p, "returned")
            /\ temp' = [temp EXCEPT !.exists = FALSE]
            /\ removedBeforeRead' =
                 [q \in Invocations |->
                    removedBeforeRead[q] \/ (q # p /\ rpc[q] = "read")]
    /\ UNCHANGED <<rin, written, entries>>
    /\ UNCHANGED notRead

\* shutil.rmtree(temp_dir), system call by system call
Rmtree(p) ==
    \/ Lstat(p)
    \/ OpenDir(p)
    \/ Scandir(p)
    \/ Unlink(p)
    \/ Rmdir(p)

(***************************************************************************)
(* __main__.main (LiverExtraction/__main__.py)                             *)
(* Images are tokens: what this part of the program does with an image is  *)
(* to pass it on.                                                          *)
(***************************************************************************)
\* main is run by the console script (setup.py entry point), where line 83
\* calls the real parse_args; or by a caller that has replaced parse_args by
\* a stub returning a namespace, the only way to get main past line 83; or
\* by a caller that has replaced one_seed_rg.main as well, by a stub
\* returning three values, the only way to get main past line 96
Callers == {"console_script", "stub_parse_args", "stub_stage_1"}

\* the output names of the runs: one without a dot, one <base>.<ext>, one
\* with an empty extension and one with an empty base
OutputNames == {<<"o">>, <<"o", ".", "n">>, <<"o", ".">>, <<".", "n">>}

Namespaces ==
    [subparser : {"osrg", "msrg"}, ground_truth : {"None", "given"},
     save_binary : BOOLEAN, output : OutputNames]

\* what the two reads of a run will find
Environments ==
    [input : {r \in ReadInputs : r.file_name = "vol"},
     ground_truth : {r \in ReadInputs : r.file_name = "seg"}]

Unbound ==
    [input_volume |-> "unbound", ground_truth |-> "unbound",
     seg_volume |-> "unbound", seg_binary |-> "unbound",
     slice_where_to_pick_seeds |-> "unbound", params |-> "unbound"]

\* parse_args(): every positional argument is added with required=True, which
\* argparse refuses for positionals, so building the parser raises TypeError
\* at the first add_argument
ParseArgsRaises == "TypeError"

\* read_zipped_nifti called alone: the exception it raises, "none" if it
\* returns the volume
ReadAlone(r) ==
    IF ~r.archive THEN "FileNotFoundError"
    ELSE IF r.content = "absent" THEN "KeyError"
    ELSE IF r.content # "nifti" THEN "RuntimeError"
    ELSE "none"

\* what the stub of one_seed_rg.main returns: three values
Stage1Stub == <<"stub_seg_volume", "stub_seg_binary", "stub_slice">>

\* the tuple one_seed_rg.main returns: (rg_seg, slice_of_the_largest_mask)
OneSeedRgMain(input_volume, ground_truth) ==
    <<"rg_seg", "slice_of_the_largest_mask">>

\* the tuple multi_seed_rg.main returns: (seg_volume, rg_seg)
MultiSeedRgMain(input_volume, segmentation, slice_where_to_pick_seeds) ==
    <<"seg_volume_2", "rg_seg_2">>

\* number of names on the left of `... = one_seed_rg.main(...)`
Stage1Targets == 3

\* number of names on the left of `... = multi_seed_rg.main(...)`
Stage2Targets == 2

Call(fn, a, ok) == [fn |-> fn, a |-> a, ok |-> ok]

MainInit ==
    /\ caller \in Callers
    /\ args \in Namespaces
    /\ env \in Environments
    /\ pc = IF caller = "console_script" THEN "parse_args" ELSE "read_input"
    /\ locals = Unbound
    /\ calls = <<>>
    /\ files = <<>>
    /\ error = "none"

\* the run ends with exception exc
Raise(exc) ==
    /\ pc' = "failed"
    /\ error' = exc

\* evaluation and both writes in the order in which a slip could put them:
\* the files written first, the segmentation evaluated last
WriteBeforeEvaluate(step) ==
    LET last == IF args.ground_truth # "None" THEN "evaluate" ELSE "done"
    IN  CASE step = "stages" -> "write"
          [] step = "write" ->
               IF args.save_binary THEN "write_binary" ELSE last
          [] step = "write_binary" -> last
          [] step = "evaluate" -> "done"

\* the statement main goes on with after a step, lines 100-108: after the
\* stages the evaluation if a ground truth was given, then the write of the
\* volume, then that of the binary mask if save_binary is set
Following(step) ==
    CASE step = "stages" ->
           IF args.ground_truth # "None" THEN "evaluate" ELSE "write"
      [] step = "evaluate" -> "write"
      [] step = "write" ->
           IF args.save_binary THEN "write_binary" ELSE "done"
      [] step = "write_binary" -> "done"

\* line 83 as the console script runs it
ParseArgs ==
    /\ pc = "parse_args"
    /\ Raise(ParseArgsRaises)
    /\ calls' = Append(calls, Call("parse_args", <<>>, FALSE))
    /\ UNCHANGED <<caller, args, env, locals, files>>
    /\ UNCHANGED notMain

\* lines 84-85
MainReadInput ==
    LET exc == ReadAlone(env.input) IN
    /\ pc = "read_input"
    /\ calls' = Append(calls, Call("read_zipped_nifti", <<"input">>,
                                   exc = "none"))
    /\ IF exc # "none"
       THEN Raise(exc) /\ UNCHANGED locals
       ELSE /\ locals' = [locals EXCEPT !.input_volume = "input_volume"]
            /\ pc' = IF args.ground_truth # "None" THEN "read_gt" ELSE "stage1"
            /\ UNCHANGED error
    /\ UNCHANGED <<caller, args, env, files>>
    /\ UNCHANGED notMain

\* lines 87-89
MainReadGroundTruth ==
    LET exc == ReadAlone(env.ground_truth) IN
    /\ pc = "read_gt"
    /\ calls' = Append(calls, Call("read_zipped_nifti", <<"ground_truth">>,
                                   exc = "none"))
    /\ IF exc # "none"
       THEN Raise(exc) /\ UNCHANGED locals
       ELSE /\ locals' = [locals EXCEPT !.ground_truth = "ground_truth"]
            /\ pc' = "stage1"
            /\ UNCHANGED error
    /\ UNCHANGED <<caller, args, env, files>>
    /\ UNCHANGED notMain

\* the exceptions one_seed_rg.main ends with: IndexError when find_centroid
\* finds no component or when plt_show finds the ground truth shallower than
\* the chosen slice, RuntimeError when sigmoid_filter's region of interest
\* leaves the slice
Stage1Raises == {"IndexError", "RuntimeError"}

\* the exceptions multi_seed_rg.main ends with: IndexError when
\* pick_random_pixels finds no component, ValueError when it has fewer
\* pixels than it is to draw, and ValueError from plt_show (np.size of a
\* ragged list) with the numpy versions that refuse such a list
Stage2Raises == {"IndexError", "ValueError"}

\* lines 91-96: both subcommands call one_seed_rg.main(input_volume,
\* ground_truth) and unpack what it returns into three names.  Reading the
\* local ground_truth raises UnboundLocalError when line 88 did not run.
\* An exception of the stage ends the run as it is; the stub returns.
\* Unpacking a tuple whose length is not the number of names raises
\* ValueError.
MainStage1 ==
    /\ pc = "stage1"
    /\ IF locals.ground_truth = "unbound"
       THEN /\ Raise("UnboundLocalError")
            /\ UNCHANGED <<locals, calls>>
       ELSE \E exc \in (IF caller = "stub_stage_1" THEN {}
                        ELSE Stage1Raises) \cup {"none"} :
              LET a == <<locals.input_volume, locals.ground_truth>>
                  t == IF caller = "stub_stage_1" THEN Stage1Stub
                       ELSE OneSeedRgMain(a[1], a[2])
              IN /\ calls' = Append(calls, Call("one_seed_rg.main", a,
                                                exc = "none"))
                 /\ IF exc # "none"
                    THEN Raise(exc) /\ UNCHANGED locals
                    ELSE IF Len(t) # Stage1Targets
                    THEN Raise("ValueError") /\ UNCHANGED locals
                    ELSE IF args.subparser = "osrg"
                    THEN /\ locals' = [locals EXCEPT !.seg_volume = t[1],
                                                     !.seg_binary = t[2]]
                         /\ pc' = Following("stages")
                         /\ UNCHANGED error
                    ELSE /\ locals' = [locals EXCEPT
                                         !.seg_volume = t[1],
                                         !.slice_where_to_pick_seeds = t[3]]
                         /\ pc' = "stage2"
                         /\ UNCHANGED error
    /\ UNCHANGED <<caller, args, env, files>>
    /\ UNCHANGED notMain

\* lines 97-98 (msrg only)
MainStage2 ==
    /\ pc = "stage2"
    /\ \E exc \in Stage2Raises \cup {"none"} :
         LET a == <<locals.input_volume, locals.seg_volume,
                    locals.slice_where_to_pick_seeds>>
             t == MultiSeedRgMain(a[1], a[2], a[3])
         IN /\ calls' = Append(calls, Call("multi_seed_rg.main", a,
                                           exc = "none"))
            /\ IF exc # "none"
               THEN Raise(exc) /\ UNCHANGED locals
               ELSE IF Len(t) # Stage2Targets
               THEN Raise("ValueError") /\ UNCHANGED locals
               ELSE /\ locals' = [locals EXCEPT !.seg_volume = t[1],
                                                !.seg_binary = t[2]]
                    /\ pc' = Following("stages")
                    /\ UNCHANGED error
    /\ UNCHANGED <<caller, args, env, files>>
    /\ UNCHANGED notMain

\* lines 100-102: params = evaluate(seg_binary, ground_truth), then
\* print_evaluate(params), which formats the five numbers.  To main the two
\* images are tokens; evaluate is the first to look at their voxels, which
\* are drawn here: the binary mask any row of 0 and 1, the ground truth any
\* row of labels.  The exception evaluate raises ends the run.
MainEvaluate ==
    /\ pc = "evaluate"
    /\ \E seg \in SegVolumes, gt \in GtVolumes :
         LET r == Evaluate(seg, gt) IN
         /\ ecall' = [seg |-> seg, gt |-> gt]
         /\ eres' = [state |-> IF r.exc = "none" THEN "returned"
                               ELSE "raised",
                     params |-> r.params, exc |-> r.exc]
         /\ calls' = Append(calls,
                            Call("evaluate",
                                 <<locals.seg_binary, locals.ground_truth>>,
                                 r.exc = "none"))
         /\ IF r.exc # "none"
            THEN Raise(r.exc) /\ UNCHANGED locals
            ELSE /\ locals' = [locals EXCEPT !.params = "params"]
                 /\ pc' = Following("evaluate")
                 /\ UNCHANGED error
    /\ UNCHANGED <<caller, args, env, files>>
    /\ UNCHANGED notMainNorEval

\* a call write_volume(img, args.output, save_binary) made by main at `at`:
\* the name is built and writer.Execute writes the file or raises
MainWriteVolume(at, image, save_binary) ==
    LET n == WriteVolumeName(args.output, save_binary) IN
    /\ pc = at
    /\ IF n.exc # "none"
       THEN /\ Raise(n.exc)
            /\ calls' = Append(calls, Call("write_volume",
                                           <<image, save_binary>>, FALSE))
            /\ UNCHANGED files
       ELSE \E ok \in BOOLEAN :
              /\ calls' = Append(calls, Call("write_volume",
                                             <<image, save_binary>>, ok))
              /\ IF ok
                 THEN /\ files' = Append(files, n.name)
                      /\ pc' = Following(at)
                      /\ UNCHANGED error
                 ELSE /\ Raise("RuntimeError")
                      /\ UNCHANGED files
    /\ UNCHANGED <<caller, args, env, locals>>
    /\ UNCHANGED notMain

\* line 104
MainWriteSegVolume == MainWriteVolume("write", locals.seg_volume, FALSE)

\* lines 105-108
MainWriteSegBinary == MainWriteVolume("write_binary", locals.seg_binary, TRUE)

\* main from line 84 on, one statement per step.  Nothing catches an
\* exception: the first one raised ends the run.
Main ==
    \/ MainReadInput
    \/ MainReadGroundTruth
    \/ MainStage1
    \/ MainStage2
    \/ MainEvaluate
    \/ MainWriteSegVolume
    \/ MainWriteSegBinary

(***************************************************************************)
(* Seed selection (methods.py): find_centroid, pick_random_pixels and      *)
(* create_seed_list.  A binary slice is [w, h, fg]: its width, its height  *)
(* and the set of its nonzero pixels <<x, y>>, x the column and y the row. *)
(* A slice without any background pixel is left out: the statistics row    *)
(* OpenCV gives to an empty label 0 is not fixed by this repository.       *)
(***************************************************************************)
MaxWidth == 3
Heights == {1, 2}
MaxSeeds == 2
Repeats == 2

PixelsOf(w, h) == (0 .. w - 1) \X (0 .. h - 1)

\* the binary slices of w x h pixels that keep a background pixel
BinarySlices(w, h) ==
    {[w |-> w, h |-> h, fg |-> f] :
       f \in (SUBSET PixelsOf(w, h)) \ {PixelsOf(w, h)}}

\* connectivity 4: the neighbours of a pixel
Neighbours4(p) ==
    {<<p[1] + 1, p[2]>>, <<p[1] - 1, p[2]>>,
     <<p[1], p[2] + 1>>, <<p[1], p[2] - 1>>}

\* the pixels of fg connected to the region, frontier being the pixels of
\* the region whose neighbours are still to be visited
RECURSIVE Flood(_, _, _)
Flood(region, frontier, fg) ==
    LET next == {q \in UNION {Neighbours4(p) : p \in frontier} :
                   q \in fg /\ q \notin region}
    IN  IF next = {} THEN region
        ELSE Flood(region \cup next, next, fg)

\* the connected component of pixel p
ComponentOf(p, fg) == Flood({p}, {p}, fg)

\* the connected components of the nonzero pixels
RECURSIVE ComponentsOf(_)
ComponentsOf(fg) ==
    IF fg = {} THEN {}
    ELSE LET c == ComponentOf(CHOOSE p \in fg : TRUE, fg)
         IN  {c} \cup ComponentsOf(fg \ c)

\* position of a pixel in the row-major scan of a slice of width w
RasterIndex(p, w) == p[2] * w + p[1]

MaxOf(S) == CHOOSE a \in S : \A b \in S : a >= b

\* the statistics row of a label: left, top, width, height, area
StatsRow(c) ==
    LET xs == {p[1] : p \in c}
        ys == {p[2] : p \in c}
    IN  <<Min(xs), Min(ys), MaxOf(xs) - Min(xs) + 1,
          MaxOf(ys) - Min(ys) + 1, Cardinality(c)>>

RECURSIVE SumSet(_, _)
SumSet(S, i) ==
    IF S = {} THEN 0
    ELSE LET p == CHOOSE q \in S : TRUE
         IN  p[i] + SumSet(S \ {p}, i)

\* the centroid of a label: the mean of its x- and of its y-coordinates
CentroidRow(c) ==
    <<Frac(SumSet(c, 1), Cardinality(c)), Frac(SumSet(c, 2), Cardinality(c))>>

\* the nonzero pixels leave the border of the slice free
BorderFree(image) ==
    \A p \in image.fg :
      /\ 0 < p[1] /\ p[1] < image.w - 1
      /\ 0 < p[2] /\ p[2] < image.h - 1

\* the statistics row of label 0, the background; when the border is free
\* its bounding box is the slice and its area what the nonzero pixels leave
BackgroundRow(image) ==
    IF BorderFree(image)
    THEN <<0, 0, image.w, image.h,
           image.w * image.h - Cardinality(image.fg)>>
    ELSE StatsRow(PixelsOf(image.w, image.h) \ image.fg)

\* the centroid of label 0: the coordinate sums of the slice less those of
\* the nonzero pixels, over the area
BackgroundCentroid(image) ==
    LET area == image.w * image.h - Cardinality(image.fg)
    IN  <<Frac(image.h * ((image.w * (image.w - 1)) \div 2)
                 - SumSet(image.fg, 1), area),
          Frac(image.w * ((image.h * (image.h - 1)) \div 2)
                 - SumSet(image.fg, 2), area)>>

\* cv2.connectedComponentsWithStats(img, 4, cv2.CV_32S): label 0 is the
\* background, the components of the nonzero pixels follow in the order in
\* which the row-major scan meets them
ConnectedComponentsWithStats(image) ==
    LET comps == ComponentsOf(image.fg)
        first(c) == Min({RasterIndex(p, image.w) : p \in c})
        rank(c) == 1 + Cardinality({d \in comps : first(d) < first(c)})
        labels == [l \in 0 .. Cardinality(comps) |->
                     IF l = 0 THEN PixelsOf(image.w, image.h) \ image.fg
                     ELSE CHOOSE c \in comps : rank(c) = l]
    IN  [numLabels |-> Cardinality(comps) + 1,
         labels |-> labels,
         stats |-> [l \in DOMAIN labels |->
                      IF l = 0 THEN BackgroundRow(image)
                      ELSE StatsRow(labels[l])],
         centroids |-> [l \in DOMAIN labels |->
                          IF l = 0 THEN BackgroundCentroid(image)
                          ELSE CentroidRow(labels[l])]]

\* np.max(stats, axis=1)
RowMax(stats) ==
    [l \in DOMAIN stats |-> MaxOf({stats[l][k] : k \in 1 .. 5})]

\* np.argsort(values)[-2]: the labels an ascending sort can put last but
\* one (the order of equal values is not fixed by argsort); none when there
\* is one value only, and the index then raises IndexError
ArgsortLastButOne(values) ==
    {l \in DOMAIN values :
       /\ Cardinality({m \in DOMAIN values : values[m] > values[l]}) <= 1
       /\ \E m \in DOMAIN values : m # l /\ values[m] >= values[l]}

\* np.uint32(x).item() of a non-negative quotient: the fraction is dropped
\* (a coordinate of a slice is far below the 2^32 at which uint32 wraps)
Uint32(f) == f.n \div f.d

\* find_centroid on a slice, the label chosen being liver_label
FindCentroidOf(cc, liver_label) ==
    <<Uint32(cc.centroids[liver_label][1]),
      Uint32(cc.centroids[liver_label][2])>>

\* The generator default_rng(seed=9) builds is PCG64 seeded through
\* SeedSequence(9).  Its 32-bit outputs (next_uint32: of each 64-bit output
\* the low half, then the high half), the first 32 of them, each as
\* <<high 16 bits, low 16 bits>>:
Pcg64Seed9 ==
    <<
    <<27626, 34593>>, <<57032, 42718>>, <<62983, 1056>>, <<18796, 55876>>,
    <<7494, 41918>>, <<39527, 60107>>, <<43746, 39672>>, <<50956, 31041>>,
    <<42115, 10885>>, <<46928, 43707>>, <<59983, 7020>>, <<59990, 23040>>,
    <<60724, 51720>>, <<56386, 49688>>, <<47252, 25111>>, <<60177, 40714>>,
    <<856, 2476>>, <<1742, 29738>>, <<52274, 24988>>, <<28655, 31780>>,
    <<49032, 61402>>, <<31781, 20408>>, <<59096, 34032>>, <<4269, 61962>>,
    <<44147, 7483>>, <<368, 46455>>, <<9704, 12288>>, <<54435, 39747>>,
    <<19171, 2094>>, <<64441, 45605>>, <<22841, 47668>>, <<51420, 12537>>
    >>

RngSeed == 9

\* default_rng(seed): a new generator at the beginning of the seed's stream
DefaultRng(seed) == [seed |-> seed, drawn |-> 0]

\* next_uint32: the next output, and the generator after it
NextUint32(rng) ==
    [value |-> Pcg64Seed9[rng.drawn + 1],
     rng |-> [rng EXCEPT !.drawn = @ + 1]]

\* the 64-bit product m = value * rng_excl of Lemire's method, as m >> 32
\* and the two 16-bit halves of its low 32 bits
Multiply(value, rng_excl) ==
    LET low == value[2] * rng_excl
        mid == value[1] * rng_excl + low \div 65536
    IN  [high |-> mid \div 65536,
         leftover |-> <<mid % 65536, low % 65536>>]

\* leftover < bound, for a bound below 2^16
LeftoverBelow(leftover, bound) == leftover[1] = 0 /\ leftover[2] < bound

\* buffered_bounded_lemire_uint32: a number of 0 .. max, the draw repeated
\* while the product's low half is below (2^32 - 1 - max) % (max + 1)
RECURSIVE BoundedLemireUint32(_, _)
BoundedLemireUint32(rng, max) ==
    LET rng_excl == max + 1
        next == NextUint32(rng)
        m == Multiply(next.value, rng_excl)
        threshold == ((65536 % rng_excl) * (65536 % rng_excl)) % rng_excl
    IN  IF LeftoverBelow(m.leftover, threshold)
        THEN BoundedLemireUint32(next.rng, max)
        ELSE [value |-> m.high, rng |-> next.rng]

\* random_bounded_uint64(bitgen, 0, max, 0, 0): no draw is made for max = 0
RandomBoundedUint64(rng, max) ==
    IF max = 0 THEN [value |-> 0, rng |-> rng]
    ELSE BoundedLemireUint32(rng, max)

\* the loop of the draw without its test: the number drawn is taken even
\* when it has been taken before
RECURSIVE FloydWithReplacement(_, _, _, _)
FloydWithReplacement(rng, j, pop_size, idx) ==
    IF j >= pop_size THEN [value |-> idx, rng |-> rng]
    ELSE LET val == RandomBoundedUint64(rng, j)
         IN  FloydWithReplacement(val.rng, j + 1, pop_size,
                                  Append(idx, val.value))

\* a draw in which an element can come twice
ChoiceWithReplacement(rng, n, size) ==
    IF size > n THEN [exc |-> "ValueError", value |-> <<>>, rng |-> rng]
    ELSE LET drawn == FloydWithReplacement(rng, n - size, n, <<>>)
         IN  [exc |-> "none", value |-> drawn.value, rng |-> drawn.rng]

\* Floyd's algorithm, the loop of choice from j on: a number of 0 .. j is
\* drawn and taken, or j itself when that number has been taken before;
\* the indices, and the generator after the draws
RECURSIVE Floyd(_, _, _, _)
Floyd(rng, j, pop_size, idx) ==
    IF j >= pop_size THEN [value |-> idx, rng |-> rng]
    ELSE LET val == RandomBoundedUint64(rng, j)
         IN  Floyd(val.rng, j + 1, pop_size,
                   Append(idx,
                          IF \E k \in DOMAIN idx : idx[k] = val.value
                          THEN j ELSE val.value))

\* rng.choice(np.arange(n), size, replace=False, shuffle=False), for the
\* populations of up to 10000 elements that choice samples by Floyd's
\* algorithm
Choice(rng, n, size) ==
    IF size > n THEN [exc |-> "ValueError", value |-> <<>>, rng |-> rng]
    ELSE LET drawn == Floyd(rng, n - size, n, <<>>)
         IN  [exc |-> "none", value |-> drawn.value, rng |-> drawn.rng]

\* np.nonzero(component): the pixels of the component in row-major order
NonZero(component, w, h) ==
    LET before(p) == {q \in component :
                        RasterIndex(q, w) < RasterIndex(p, w)}
    IN  [i \in 1 .. Cardinality(component) |->
           CHOOSE p \in component : Cardinality(before(p)) = i - 1]

\* a generator that is kept from one call to the next
SameGenerator(bound) == bound

\* rng = np.random.default_rng(seed=9): every call binds rng to a new
\* generator, whatever the name was bound to by the call before
NewGenerator(bound) == DefaultRng(RngSeed)

\* a sampling that asks for no more pixels than the component holds
PickAvailablePixelsOf(image, cc, liver_label, number_of_pixels, bound) ==
    LET component == cc.labels[liver_label]
        non_zero_pixels == NonZero(component, image.w, image.h)
        size == IF number_of_pixels > Len(non_zero_pixels)
                THEN Len(non_zero_pixels) ELSE number_of_pixels
        random_idx == Choice(NewGenerator(bound), Len(non_zero_pixels),
                             size)
    IN  [exc |-> "none", rng |-> random_idx.rng,
         value |-> <<[j \in 1 .. size |->
                       non_zero_pixels[random_idx.value[j] + 1][1]],
                     [j \in 1 .. size |->
                       non_zero_pixels[random_idx.value[j] + 1][2]]>>]

\* pick_random_pixels on a slice, the label chosen being liver_label and
\* bound the generator of the call before: the pixels, and the generator
\* as the call leaves it
PickRandomPixelsOf(image, cc, liver_label, number_of_pixels, bound) ==
    LET component == cc.labels[liver_label]
        non_zero_pixels == NonZero(component, image.w, image.h)
        rng == NewGenerator(bound)
        random_idx == Choice(rng, Len(non_zero_pixels), number_of_pixels)
    IN  IF random_idx.exc # "none"
        THEN [exc |-> random_idx.exc, value |-> <<>>,
              rng |-> random_idx.rng]
        ELSE [exc |-> "none", rng |-> random_idx.rng,
              value |->
                <<[j \in 1 .. number_of_pixels |->
                     non_zero_pixels[random_idx.value[j] + 1][1]],
                  [j \in 1 .. number_of_pixels |->
                     non_zero_pixels[random_idx.value[j] + 1][2]]>>]

\* a seed list with the two coordinates exchanged
CreateSeedListSwapped(x_pixels, y_pixels, slice_idx, number_of_pixels) ==
    IF Len(x_pixels) # number_of_pixels \/ Len(y_pixels) # number_of_pixels
    THEN [exc |-> "ValueError", value |-> <<>>]
    ELSE [exc |-> "none",
          value |-> [i \in 1 .. number_of_pixels |->
                       <<y_pixels[i], x_pixels[i], slice_idx>>]]

\* create_seed_list: reshape raises when the length differs from
\* number_of_pixels
CreateSeedList(x_pixels, y_pixels, slice_idx, number_of_pixels) ==
    IF Len(x_pixels) # number_of_pixels \/ Len(y_pixels) # number_of_pixels
    THEN [exc |-> "ValueError", value |-> <<>>]
    ELSE [exc |-> "none",
          value |-> [i \in 1 .. number_of_pixels |->
                       <<x_pixels[i], y_pixels[i], slice_idx>>]]

NoSlice == [w |-> 1, h |-> 1, fg |-> {}]

\* a call, the arguments a function does not take left at a default
MethodCall(fn, image, n, x, y, s) ==
    [fn |-> fn, img |-> image, number_of_pixels |-> n,
     x_pixels |-> x, y_pixels |-> y, slice_idx |-> s]

MethodsInit ==
    /\ mlog = <<>>
    /\ bitgen = DefaultRng(RngSeed)
    /\ \/ \E w \in 1 .. MaxWidth, h \in Heights :
            \E image \in BinarySlices(w, h) :
              mcall = MethodCall("find_centroid", image, 0, <<>>, <<>>, 0)
       \/ \E w \in 1 .. MaxWidth, h \in Heights :
            \E image \in BinarySlices(w, h), n \in 0 .. MaxSeeds :
              mcall = MethodCall("pick_random_pixels", image, n,
                                 <<>>, <<>>, 0)
       \/ \E x \in SeqsUpTo(0 .. MaxWidth - 1, MaxSeeds),
              y \in SeqsUpTo({0, 1}, MaxSeeds),
              s \in 0 .. MaxSlices - 1, n \in 0 .. MaxSeeds :
            mcall = MethodCall("create_seed_list", NoSlice, n, x, y, s)

\* argsort is a function of its input: a repeated call on the same slice
\* sorts equal maxima as the first call did
SameSort(candidates) ==
    IF mlog # <<>> /\ mlog[1].exc # "IndexError" THEN {mlog[1].label}
    ELSE candidates

\* one call of find_centroid on the slice
FindCentroid ==
    /\ mcall.fn = "find_centroid"
    /\ Len(mlog) < Repeats
    /\ LET cc == ConnectedComponentsWithStats(mcall.img)
           candidates == SameSort(ArgsortLastButOne(RowMax(cc.stats)))
       IN  IF candidates = {}
           THEN mlog' = Append(mlog, [exc |-> "IndexError", label |-> 0,
                                      value |-> <<>>])
           ELSE \E liver_label \in candidates :
                  mlog' = Append(mlog,
                                 [exc |-> "none", label |-> liver_label,
                                  value |-> FindCentroidOf(cc, liver_label)])
    /\ UNCHANGED <<mcall, bitgen>>
    /\ UNCHANGED notMethods

\* one call of pick_random_pixels on the slice
PickRandomPixels ==
    /\ mcall.fn = "pick_random_pixels"
    /\ Len(mlog) < Repeats
    /\ LET cc == ConnectedComponentsWithStats(mcall.img)
           candidates == SameSort(ArgsortLastButOne(RowMax(cc.stats)))
       IN  IF candidates = {}
           THEN /\ mlog' = Append(mlog, [exc |-> "IndexError", label |-> 0,
                                         value |-> <<>>])
                /\ UNCHANGED bitgen
           ELSE \E liver_label \in candidates :
                  LET r == PickRandomPixelsOf(mcall.img, cc, liver_label,
                                              mcall.number_of_pixels,
                                              bitgen)
                  IN  /\ mlog' = Append(mlog, [exc |-> r.exc,
                                               label |-> liver_label,
                                               value |-> r.value])
                      /\ bitgen' = r.rng
    /\ UNCHANGED mcall
    /\ UNCHANGED notMethods

\* one call of create_seed_list
CreateSeedListCall ==
    /\ mcall.fn = "create_seed_list"
    /\ Len(mlog) < Repeats
    /\ LET r == CreateSeedList(mcall.x_pixels, mcall.y_pixels,
                               mcall.slice_idx, mcall.number_of_pixels)
       IN  mlog' = Append(mlog, [exc |-> r.exc, label |-> 0,
                                 value |-> r.value])
    /\ UNCHANGED <<mcall, bitgen>>
    /\ UNCHANGED notMethods

(***************************************************************************)
(* sigmoid_filter (preprocessing.py).  A volume is a sequence of square    *)
(* slices of side SliceSide; the gray level of a sample is given by the    *)
(* kind of its slice, so that the statistics of a region tell where the    *)
(* region lies.                                                            *)
(***************************************************************************)
SliceSide == 24
RoiSize == 20
SliceKinds == {"ramp_x", "ramp_y"}
Volumes == [1 .. 2 -> SliceKinds]

\* the gray level of sample (x, y) of a slice
GrayLevel(kind, x, y) == IF kind = "ramp_x" THEN 10 * x + 5 ELSE 7 * y + 3

\* a rectangular region of samples, bounds included
Region(x0, x1, y0, y1) == [x0 |-> x0, x1 |-> x1, y0 |-> y0, y1 |-> y1]
SamplesOf(r) == (r.x0 .. r.x1) \X (r.y0 .. r.y1)
FullSlice == Region(0, SliceSide - 1, 0, SliceSide - 1)

\* extract_roi.SetIndex(pixel); extract_roi.SetSize([20, 20]): the region
\* starts at the index and holds RoiSize samples along x and along y (of a
\* three-element index the slice takes x and y)
RoiRegion(pixel) ==
    Region(pixel[1], pixel[1] + RoiSize - 1, pixel[2], pixel[2] + RoiSize - 1)

\* RegionOfInterestImageFilter.Execute raises when the region leaves the
\* slice of w x h samples
RoiOutsideOf(r, w, h) ==
    r.x0 < 0 \/ r.y0 < 0 \/ r.x1 > w - 1 \/ r.y1 > h - 1

RoiOutside(r) == RoiOutsideOf(r, SliceSide, SliceSide)

\* StatisticsImageFilter on a region of a slice: the sum of the gray levels
\* of row y from column x on, and of the rows from y on
RECURSIVE SumRow(_, _, _, _)
SumRow(kind, r, x, y) ==
    IF x > r.x1 THEN 0
    ELSE GrayLevel(kind, x, y) + SumRow(kind, r, x + 1, y)

RECURSIVE SumLevels(_, _, _)
SumLevels(kind, r, y) ==
    IF y > r.y1 THEN 0
    ELSE SumRow(kind, r, r.x0, y) + SumLevels(kind, r, y + 1)

Statistics(kind, r) ==
    LET levels == {GrayLevel(kind, p[1], p[2]) : p \in SamplesOf(r)}
    IN  [minimum |-> Min(levels),
         maximum |-> MaxOf(levels),
         mean |-> Frac(SumLevels(kind, r, r.y0),
                       Cardinality(SamplesOf(r)))]

NoRegion == Region(0, 0, 0, 0)

SigmoidIdleResult ==
    [state |-> "idle", roi |-> NoRegion, alpha |-> 0, beta |-> Frac(0, 1),
     output_minimum |-> 0, output_maximum |-> 0, exc |-> "none"]

\* sigmoid_filter(img, slice_idx, pixel) on a stack of images
SigmoidFilter(image, slice_idx, pixel) ==
    IF slice_idx + 1 \notin DOMAIN image
    THEN [SigmoidIdleResult EXCEPT !.state = "raised", !.exc = "IndexError"]
    ELSE
      LET sample_slice == image[slice_idx + 1]
          input == Statistics(sample_slice, FullSlice)
          region == RoiRegion(pixel)
      IN  IF RoiOutside(region)
          THEN [SigmoidIdleResult EXCEPT !.state = "raised",
                                         !.exc = "RuntimeError"]
          ELSE LET roi == Statistics(sample_slice, region)
               IN  [state |-> "returned",
                    roi |-> region,
                    alpha |-> roi.maximum - roi.minimum,
                    beta |-> roi.mean,
                    output_minimum |-> input.minimum,
                    output_maximum |-> input.maximum,
                    exc |-> "none"]

SigmoidInit ==
    /\ sgcall \in [img : Volumes, slice_idx : 0 .. 2,
                   pixel : (0 .. SliceSide - 1) \X (0 .. SliceSide - 1)
                             \X (0 .. 0)]
    /\ sgres = [SigmoidIdleResult EXCEPT !.state = "called"]

SigmoidFilterCall ==
    /\ sgres.state = "called"
    /\ sgres' = SigmoidFilter(sgcall.img, sgcall.slice_idx, sgcall.pixel)
    /\ UNCHANGED sgcall
    /\ UNCHANGED notSigmoid

(***************************************************************************)
(* Stage 1 (one_seed_rg.main).  A volume is [size, pixel, den, far, near]:  *)
(* its size <<w, h, d>>, its pixel type, the gray level near[p] / den of   *)
(* the samples p = <<x, y, z>> that are listed, and far[z + 1] / den of    *)
(* every other sample of slice z; den is 1 for an integer pixel type.      *)
(* The steps up to find_centroid work on the samples; of the               *)
(* later filters, which are library calls on the whole volume, the model   *)
(* keeps the call and the chain of filters an image went through.          *)
(***************************************************************************)
ImageSide == 512

\* a crop that removes the lower half of the x axis instead
LeftBoundaryCropSizes ==
    [lower |-> <<256, 0, 0>>, upper |-> <<0, 0, 0>>]

\* SetLowerBoundaryCropSize([0, 0, 0]); SetUpperBoundaryCropSize([256, 0, 0])
BoundaryCropSizes ==
    [lower |-> <<0, 0, 0>>, upper |-> <<256, 0, 0>>]

Level(vol, p) ==
    IF p \in DOMAIN vol.near THEN vol.near[p] ELSE vol.far[p[3] + 1]

InsideVolume(p, size) ==
    \A i \in 1 .. 3 : 0 <= p[i] /\ p[i] < size[i]

\* the sample of the input a sample of the cropped image is
CropSource(p) == [i \in 1 .. 3 |-> p[i] + BoundaryCropSizes.lower[i]]

\* crop_right_half on a stack: CropImageFilter with the two boundary sizes
CropRightHalf(vol) ==
    LET size == [i \in 1 .. 3 |->
                   vol.size[i] - BoundaryCropSizes.lower[i]
                     - BoundaryCropSizes.upper[i]]
        kept == {[i \in 1 .. 3 |-> q[i] - BoundaryCropSizes.lower[i]] :
                   q \in DOMAIN vol.near}
    IN  [size |-> size, pixel |-> vol.pixel, den |-> vol.den,
         far |-> vol.far,
         near |-> [p \in {k \in kept : InsideVolume(k, size)} |->
                     vol.near[CropSource(p)]]]

\* ZeroFluxNeumann boundary: an index outside 0 .. n-1 reads the nearest
\* sample inside
Clamp(i, n) == IF i < 0 THEN 0 ELSE IF i > n - 1 THEN n - 1 ELSE i

RECURSIVE SumRange(_, _, _)
SumRange(f, lo, hi) ==
    IF lo > hi THEN 0 ELSE f[lo] + SumRange(f, lo + 1, hi)

\* the sum of the gray levels of the (2r+1) x (2r+1) box around (x, y) on
\* slice z; on a slice without listed samples every term is far[z + 1]
SliceBoxSum(vol, x, y, z, r) ==
    IF \A q \in DOMAIN vol.near : q[3] # z
    THEN (2 * r + 1) * (2 * r + 1) * vol.far[z + 1]
    ELSE SumRange([dy \in -r .. r |->
                     SumRange([dx \in -r .. r |->
                                 Level(vol, <<Clamp(x + dx, vol.size[1]),
                                              Clamp(y + dy, vol.size[2]),
                                              z>>)],
                              -r, r)],
                  -r, r)

\* the sum over the (2r+1)^3 box around p
BoxSum(vol, p, r) ==
    SumRange([dz \in -r .. r |->
                SliceBoxSum(vol, p[1], p[2], Clamp(p[3] + dz, vol.size[3]),
                            r)],
             -r, r)

\* the samples whose box meets a listed sample: the bounding box of the
\* listed samples grown by r, on every slice
Grown(vol, r) ==
    IF DOMAIN vol.near = {} THEN {}
    ELSE LET xs == {q[1] : q \in DOMAIN vol.near}
             ys == {q[2] : q \in DOMAIN vol.near}
         IN  (Clamp(Min(xs) - r, vol.size[1])
                .. Clamp(MaxOf(xs) + r, vol.size[1]))
             \X (Clamp(Min(ys) - r, vol.size[2])
                   .. Clamp(MaxOf(ys) + r, vol.size[2]))
             \X (0 .. vol.size[3] - 1)

\* the pixel types of the model: one of integers, one of reals
IntegerPixels == {"Int16"}
PixelTypes == IntegerPixels \cup {"Float64"}

\* static_cast of the real num / d to an integer pixel type: the fraction
\* is dropped, towards zero
CastToInteger(num, d) ==
    IF num >= 0 THEN num \div d ELSE -((-num) \div d)

\* MeanImageFilter with SetRadius(r): every sample becomes the mean of its
\* box, cast to the pixel type of the image.  For a real pixel type the
\* mean is kept exact, as a sum over the denominator den; for an integer
\* pixel type its fraction is dropped.
MeanImage(vol, r) ==
    LET n == (2 * r + 1) * (2 * r + 1) * (2 * r + 1)
        far == [k \in DOMAIN vol.far |->
                  SumRange([dz \in -r .. r |->
                              (2 * r + 1) * (2 * r + 1)
                                * vol.far[Clamp(k - 1 + dz, vol.size[3]) + 1]],
                           -r, r)]
        near == [p \in Grown(vol, r) |-> BoxSum(vol, p, r)]
    IN  IF vol.pixel \in IntegerPixels
        THEN [size |-> vol.size, pixel |-> vol.pixel, den |-> 1,
              far |-> [k \in DOMAIN far |-> CastToInteger(far[k], n)],
              near |-> [p \in DOMAIN near |-> CastToInteger(near[p], n)]]
        ELSE [size |-> vol.size, pixel |-> vol.pixel, den |-> vol.den * n,
              far |-> far, near |-> near]

\* BinaryThresholdImageFilter: inside where lower <= level <= upper
InBand(num, den, upper, lower) == lower * den <= num /\ num <= upper * den

Threshold(vol, upper, lower, inside, outside) ==
    [size |-> vol.size,
     pixel |-> "UInt8",
     den |-> 1,
     far |-> [k \in DOMAIN vol.far |->
                IF InBand(vol.far[k], vol.den, upper, lower)
                THEN inside ELSE outside],
     near |-> [p \in DOMAIN vol.near |->
                 IF InBand(vol.near[p], vol.den, upper, lower)
                 THEN inside ELSE outside]]

\* np.count_nonzero of slice z of a stack
CountNonzeroOfSlice(vol, z) ==
    Cardinality({p \in DOMAIN vol.near : p[3] = z /\ vol.near[p] # 0})
    + (IF vol.far[z + 1] # 0
       THEN vol.size[1] * vol.size[2]
              - Cardinality({p \in DOMAIN vol.near : p[3] = z})
       ELSE 0)

\* find_biggest_mask: the loop over the slices from slice z on
RECURSIVE BiggestMaskFrom(_, _, _, _)
BiggestMaskFrom(vol, z, area, idx) ==
    IF z >= vol.size[3] THEN idx
    ELSE IF IsBigger(CountNonzeroOfSlice(vol, z), area)
         THEN BiggestMaskFrom(vol, z + 1, CountNonzeroOfSlice(vol, z), z)
         ELSE BiggestMaskFrom(vol, z + 1, area, idx)

FindBiggestMask(vol) == BiggestMaskFrom(vol, 0, 0, 0)

\* slice z of a thresholded stack, the two-dimensional image that the
\* find_centroid of one_seed_rg labels: its nonzero samples, those listed
\* and, where the flat level of the slice is not 0, every sample that is
\* not listed
BinarySliceOf(vol, z) ==
    LET listed == {q \in DOMAIN vol.near : q[3] = z}
        at(q) == <<q[1], q[2]>>
    IN  [w |-> vol.size[1], h |-> vol.size[2],
         fg |-> IF vol.far[z + 1] = 0
                THEN {at(q) : q \in {r \in listed : vol.near[r] # 0}}
                ELSE ((0 .. vol.size[1] - 1) \X (0 .. vol.size[2] - 1))
                       \ {at(q) : q \in {r \in listed : vol.near[r] = 0}}]

\* the inputs of the model: slices of ImageSide x ImageSide samples, flat
\* apart from one rectangle of a brighter level on one slice, whose corner
\* is at one of two origins (one in each half of the x axis); the level of
\* the flat part is 0 on every slice or grows by 1000 from slice to slice
S1Origins == {<<100, 200>>, <<300, 200>>}
S1Levels == {100, 3125, 8000}
S1Profiles ==
    {[k \in 1 .. MaxSlices |-> 0], [k \in 1 .. MaxSlices |-> 1000 * (k - 2)]}
S1Rectangles ==
    {Region(0, c[1] - 1, 0, c[2] - 1) :
       c \in (1 .. MaxWidth) \X Heights}

NoSamples == [p \in {} |-> 0]

InputVolume(pixel, far, o, r, z, level) ==
    [size |-> <<ImageSide, ImageSide, MaxSlices>>, pixel |-> pixel,
     den |-> 1, far |-> far,
     near |-> [p \in {<<o[1] + c[1], o[2] + c[2], z>> :
                        c \in SamplesOf(r)} |-> level]]

InputVolumes ==
    {[size |-> <<ImageSide, ImageSide, MaxSlices>>, pixel |-> pixel,
      den |-> 1, far |-> far, near |-> NoSamples] :
       pixel \in PixelTypes, far \in S1Profiles}
    \cup
    {InputVolume(pixel, far, o, r, z, level) :
       pixel \in PixelTypes, far \in S1Profiles, o \in S1Origins,
       r \in S1Rectangles, z \in 0 .. MaxSlices - 1, level \in S1Levels}

\* the ground truth handed to stage 1: none, or a volume of some depth
NoGroundTruth == [given |-> FALSE, size |-> <<0, 0, 0>>]

GroundTruths ==
    {NoGroundTruth}
    \cup {[given |-> TRUE, size |-> <<ImageSide, ImageSide, d>>] :
            d \in 1 .. MaxSlices}

\* an image of which the model keeps the chain of filters only
NoVolume ==
    [size |-> <<0, 0, 0>>, pixel |-> "UInt8", den |-> 1, far |-> <<>>,
     near |-> NoSamples]

\* a wider confidence interval
MultiplierThree == Frac(3, 1)

\* multiplier=2.5
Multiplier == Frac(5, 2)

\* the record of a call: the function, the chain of its image argument, its
\* integer arguments, the seeds and the multiplier (0 when it has none)
Called(fn, image, arguments, seed, multiplier) ==
    [fn |-> fn, img |-> image, args |-> arguments, seed |-> seed,
     multiplier |-> multiplier]

S1Locals ==
    [chain |-> <<>>, vol |-> NoVolume, slice_of_the_largest_mask |-> -1,
     liver_label |-> -1, centroid |-> <<>>, rg_seg |-> <<>>]

S1NoResult ==
    [state |-> "running", rg_seg |-> <<>>, slice_of_the_largest_mask |-> -1,
     exc |-> "none"]

Stage1Init ==
    /\ s1in \in InputVolumes
    /\ s1gt \in GroundTruths
    /\ s1pc = "crop"
    /\ s1loc = S1Locals
    /\ s1stack = NoVolume
    /\ s1calls = <<>>
    /\ s1res = S1NoResult

\* a step that passes the image `from` through one filter
S1Filter(at, next, fn, from, arguments) ==
    /\ s1pc = at
    /\ s1calls' = Append(s1calls,
                         Called(fn, from, arguments, <<>>, Frac(0, 1)))
    /\ s1pc' = next
    /\ UNCHANGED <<s1in, s1gt, s1res>>
    /\ UNCHANGED notStage1

\* vol = pp.crop_right_half(input_volume)
S1Crop ==
    /\ S1Filter("crop", "mean", "crop_right_half", <<"input_volume">>, <<>>)
    /\ s1loc' = [s1loc EXCEPT
                   !.chain = <<"input_volume", "crop_right_half">>,
                   !.vol = CropRightHalf(s1in)]
    /\ UNCHANGED s1stack

\* vol = pp.mean_filter(vol, 2)
S1MeanFilter ==
    /\ S1Filter("mean", "threshold", "mean_filter", s1loc.chain, <<2>>)
    /\ s1loc' = [s1loc EXCEPT !.chain = Append(@, "mean_filter"),
                              !.vol = MeanImage(@, 2)]
    /\ UNCHANGED s1stack

\* vol = pp.threshold(vol, 130, 60, 1, 0)
S1Threshold ==
    /\ S1Filter("threshold", "find_biggest_mask", "threshold", s1loc.chain,
                <<130, 60, 1, 0>>)
    /\ s1loc' = [s1loc EXCEPT !.chain = Append(@, "threshold"),
                              !.vol = Threshold(@, 130, 60, 1, 0)]
    /\ s1stack' = Threshold(s1loc.vol, 130, 60, 1, 0)

\* slice_of_the_largest_mask = mt.find_biggest_mask(vol)
S1FindBiggestMask ==
    /\ S1Filter("find_biggest_mask", "find_centroid", "find_biggest_mask",
                s1loc.chain, <<>>)
    /\ s1loc' = [s1loc EXCEPT
                   !.slice_of_the_largest_mask = FindBiggestMask(s1loc.vol)]
    /\ UNCHANGED s1stack

\* x_centroid, y_centroid = mt.find_centroid(vol, slice_of_the_largest_mask)
\* centroid = [x_centroid, y_centroid, slice_of_the_largest_mask]
S1FindCentroid ==
    /\ s1pc = "find_centroid"
    /\ s1calls' = Append(s1calls,
                         Called("find_centroid", s1loc.chain,
                                <<s1loc.slice_of_the_largest_mask>>, <<>>,
                                Frac(0, 1)))
    /\ LET cc == ConnectedComponentsWithStats(
                   BinarySliceOf(s1loc.vol, s1loc.slice_of_the_largest_mask))
           candidates == ArgsortLastButOne(RowMax(cc.stats))
       IN  IF candidates = {}
           THEN /\ s1pc' = "done"
                /\ s1res' = [S1NoResult EXCEPT !.state = "raised",
                                               !.exc = "IndexError"]
                /\ UNCHANGED s1loc
           ELSE \E liver_label \in candidates :
                  /\ s1pc' = "show"
                  /\ s1loc' = [s1loc EXCEPT
                       !.liver_label = liver_label,
                       !.centroid =
                          FindCentroidOf(cc, liver_label)
                            \o <<s1loc.slice_of_the_largest_mask>>]
                  /\ UNCHANGED s1res
    /\ UNCHANGED <<s1in, s1gt, s1stack>>
    /\ UNCHANGED notStage1

\* lines 49-51: `if ground_truth: plt_show(ground_truth, centroid)` and the
\* print.  An image is true.  plt_show takes the slice centroid[2] of the
\* ground truth as an array, which raises IndexError when the ground truth
\* has no such slice; otherwise it displays the slice.  A display is no
\* step of the processing and is not logged.
S1PltShow ==
    /\ s1pc = "show"
    /\ IF s1gt.given /\ s1loc.centroid[3] >= s1gt.size[3]
       THEN /\ s1pc' = "done"
            /\ s1res' = [S1NoResult EXCEPT !.state = "raised",
                                           !.exc = "IndexError"]
       ELSE /\ s1pc' = "mean_input"
            /\ UNCHANGED s1res
    /\ UNCHANGED <<s1in, s1gt, s1loc, s1stack, s1calls>>
    /\ UNCHANGED notStage1

\* vol = pp.mean_filter(input_volume, 2)
S1MeanFilterInput ==
    /\ S1Filter("mean_input", "sigmoid", "mean_filter", <<"input_volume">>,
                <<2>>)
    /\ s1loc' = [s1loc EXCEPT !.chain = <<"input_volume", "mean_filter">>,
                              !.vol = NoVolume]
    /\ UNCHANGED s1stack

\* vol = pp.sigmoid_filter(vol, slice_of_the_largest_mask, centroid)
S1SigmoidFilter ==
    /\ s1pc = "sigmoid"
    /\ s1calls' = Append(s1calls,
                         Called("sigmoid_filter", s1loc.chain,
                                <<s1loc.slice_of_the_largest_mask>>,
                                <<s1loc.centroid>>, Frac(0, 1)))
    /\ IF RoiOutsideOf(RoiRegion(s1loc.centroid), s1in.size[1], s1in.size[2])
       THEN /\ s1pc' = "done"
            /\ s1res' = [S1NoResult EXCEPT !.state = "raised",
                                           !.exc = "RuntimeError"]
            /\ UNCHANGED s1loc
       ELSE /\ s1pc' = "histogram"
            /\ s1loc' = [s1loc EXCEPT !.chain = Append(@, "sigmoid_filter")]
            /\ UNCHANGED s1res
    /\ UNCHANGED <<s1in, s1gt, s1stack>>
    /\ UNCHANGED notStage1

\* vol = pp.histogram_equalization(vol)
S1HistogramEqualization ==
    /\ S1Filter("histogram", "grow", "histogram_equalization", s1loc.chain,
                <<>>)
    /\ s1loc' = [s1loc EXCEPT
                   !.chain = Append(@, "histogram_equalization")]
    /\ UNCHANGED s1stack

\* rg_seg = mt.region_growing(vol, centroid, multiplier=2.5,
\*                            initialNeighborhoodRadius=2)
S1RegionGrowing ==
    /\ s1pc = "grow"
    /\ s1calls' = Append(s1calls,
                         Called("region_growing", s1loc.chain, <<2>>,
                                <<s1loc.centroid>>, Multiplier))
    /\ s1pc' = "opening"
    /\ s1loc' = [s1loc EXCEPT !.rg_seg = Append(s1loc.chain,
                                                "region_growing")]
    /\ UNCHANGED <<s1in, s1gt, s1stack, s1res>>
    /\ UNCHANGED notStage1

\* rg_seg = pp.binary_opening(rg_seg, radius=2)
S1BinaryOpening ==
    /\ S1Filter("opening", "closing_br", "binary_opening", s1loc.rg_seg,
                <<2>>)
    /\ s1loc' = [s1loc EXCEPT !.rg_seg = Append(@, "binary_opening")]
    /\ UNCHANGED s1stack

\* rg_seg = pp.binary_closing_br(rg_seg, radius=10)
S1BinaryClosingBr ==
    /\ S1Filter("closing_br", "closing", "binary_closing_br", s1loc.rg_seg,
                <<10>>)
    /\ s1loc' = [s1loc EXCEPT !.rg_seg = Append(@, "binary_closing_br")]
    /\ UNCHANGED s1stack

\* rg_seg = pp.binary_closing(rg_seg, radius=3)
S1BinaryClosing ==
    /\ S1Filter("closing", "return", "binary_closing", s1loc.rg_seg, <<3>>)
    /\ s1loc' = [s1loc EXCEPT !.rg_seg = Append(@, "binary_closing")]
    /\ UNCHANGED s1stack

\* return (rg_seg, slice_of_the_largest_mask)
S1Return ==
    /\ s1pc = "return"
    /\ s1pc' = "done"
    /\ s1res' = [state |-> "returned", rg_seg |-> s1loc.rg_seg,
                 slice_of_the_largest_mask |->
                   s1loc.slice_of_the_largest_mask,
                 exc |-> "none"]
    /\ UNCHANGED <<s1in, s1gt, s1loc, s1stack, s1calls>>
    /\ UNCHANGED notStage1

(***************************************************************************)
(* Stage 2 (multi_seed_rg.main).  The filters are library calls on whole   *)
(* images: the model keeps each call and the chain of filters an image     *)
(* went through.  What the erosion leaves of the chosen slice of the       *)
(* stage-1 mask is an input: a slice of ImageSide x ImageSide samples      *)
(* whose foreground is empty or one rectangle.  The two displays           *)
(* (plt_show) change nothing; they are one step, which can raise.          *)
(***************************************************************************)
\* number_of_pixels = 30
NumberOfPixels == 30

\* an erosion applied once
ErodeOnce == [radius |-> 1, iters |-> 1]

\* pp.erode(segmentation_slice, radius=1, iters=3)
ErodeArguments == [radius |-> 1, iters |-> 3]

\* the sizes <<columns, rows>> of the rectangle the erosion leaves
ErodedSizes == {<<4, 7>>, <<29, 1>>, <<6, 5>>, <<31, 1>>, <<6, 6>>}

ErodedSlice(size) ==
    [w |-> ImageSide, h |-> ImageSide,
     fg |-> {<<100 + c, 200 + r>> :
               c \in 0 .. size[1] - 1, r \in 0 .. size[2] - 1}]

ErodedSlices ==
    {[w |-> ImageSide, h |-> ImageSide, fg |-> {}]}
    \cup {ErodedSlice(size) : size \in ErodedSizes}

\* the record of a call of stage 2: as Called, with the chain of the mask
\* image of a mask_filter
Called2(fn, image, mask, arguments, seed, multiplier) ==
    [fn |-> fn, img |-> image, mask |-> mask, args |-> arguments,
     seed |-> seed, multiplier |-> multiplier]

S2Locals ==
    [vol |-> <<>>, segmentation_slice |-> <<>>, x_pixels |-> <<>>,
     y_pixels |-> <<>>, liver_conn_comp |-> -1, seed_list |-> <<>>,
     rg_seg |-> <<>>, seg_volume |-> <<>>]

S2NoResult ==
    [state |-> "running", seg_volume |-> <<>>, rg_seg |-> <<>>,
     exc |-> "none"]

Stage2Init ==
    /\ s2in \in [slice_where_to_pick_seeds : 0 .. MaxSlices - 1,
                 eroded : ErodedSlices]
    /\ s2pc = "mean"
    /\ s2loc = S2Locals
    /\ s2calls = <<>>
    /\ s2res = S2NoResult

\* a step that makes one call and goes on
S2Step(at, next, call) ==
    /\ s2pc = at
    /\ s2calls' = Append(s2calls, call)
    /\ s2pc' = next
    /\ UNCHANGED <<s2in, s2res>>
    /\ UNCHANGED notStage2

\* a step whose call raises
S2Raise(call, exc) ==
    /\ s2calls' = Append(s2calls, call)
    /\ s2pc' = "done"
    /\ s2res' = [S2NoResult EXCEPT !.state = "raised", !.exc = exc]
    /\ UNCHANGED <<s2in, s2loc>>
    /\ UNCHANGED notStage2

\* vol = pp.mean_filter(input_volume, radius=3)
S2MeanFilter ==
    /\ S2Step("mean", "mask",
              Called2("mean_filter", <<"input_volume">>, <<>>, <<3>>, <<>>,
                      Frac(0, 1)))
    /\ s2loc' = [s2loc EXCEPT !.vol = <<"input_volume", "mean_filter">>]

\* vol = pp.mask_filter(vol, segmentation)
S2MaskFilter ==
    /\ S2Step("mask", "histogram",
              Called2("mask_filter", s2loc.vol, <<"segmentation">>, <<>>,
                      <<>>, Frac(0, 1)))
    /\ s2loc' = [s2loc EXCEPT !.vol = Append(@, "mask_filter")]

\* vol = pp.histogram_equalization(vol)
S2HistogramEqualization ==
    /\ S2Step("histogram", "erode",
              Called2("histogram_equalization", s2loc.vol, <<>>, <<>>, <<>>,
                      Frac(0, 1)))
    /\ s2loc' = [s2loc EXCEPT !.vol = Append(@, "histogram_equalization")]

\* segmentation_slice = segmentation[:, :, slice_where_to_pick_seeds]
\* segmentation_slice = pp.erode(segmentation_slice, radius=1, iters=3)
S2Erode ==
    /\ S2Step("erode", "pick",
              Called2("erode", <<"segmentation", "slice">>, <<>>,
                      <<ErodeArguments.radius, ErodeArguments.iters,
                        s2in.slice_where_to_pick_seeds>>,
                      <<>>, Frac(0, 1)))
    /\ s2loc' = [s2loc EXCEPT
                   !.segmentation_slice = <<"segmentation", "slice", "erode">>]

\* x_pixels, y_pixels, liver_conn_comp = mt.pick_random_pixels(
\*     segmentation_slice, number_of_pixels)
S2PickRandomPixels ==
    /\ s2pc = "pick"
    /\ LET call == Called2("pick_random_pixels", s2loc.segmentation_slice,
                           <<>>, <<NumberOfPixels>>, <<>>, Frac(0, 1))
           cc == ConnectedComponentsWithStats(s2in.eroded)
           candidates == ArgsortLastButOne(RowMax(cc.stats))
       IN  IF candidates = {}
           THEN S2Raise(call, "IndexError")
           ELSE \E liver_label \in candidates :
                  LET picked == PickRandomPixelsOf(s2in.eroded, cc,
                                                   liver_label,
                                                   NumberOfPixels,
                                                   DefaultRng(RngSeed))
                  IN  IF picked.exc # "none"
                      THEN S2Raise(call, picked.exc)
                      ELSE /\ s2calls' = Append(s2calls, call)
                           /\ s2pc' = "seed_list"
                           /\ s2loc' = [s2loc EXCEPT
                                          !.x_pixels = picked.value[1],
                                          !.y_pixels = picked.value[2],
                                          !.liver_conn_comp = liver_label]
                           /\ UNCHANGED <<s2in, s2res>>
                           /\ UNCHANGED notStage2

\* pixel_coords = [x_pixels, y_pixels, slice_where_to_pick_seeds]
\* seed_list = mt.create_seed_list(pixel_coords, number_of_pixels)
S2CreateSeedList ==
    /\ s2pc = "seed_list"
    /\ LET call == Called2("create_seed_list", <<>>, <<>>,
                           <<NumberOfPixels>>, <<>>, Frac(0, 1))
           made == CreateSeedList(s2loc.x_pixels, s2loc.y_pixels,
                                  s2in.slice_where_to_pick_seeds,
                                  NumberOfPixels)
       IN  IF made.exc # "none"
           THEN S2Raise(call, made.exc)
           ELSE /\ s2calls' = Append(s2calls, call)
                /\ s2pc' = "show"
                /\ s2loc' = [s2loc EXCEPT !.seed_list = made.value]
                /\ UNCHANGED <<s2in, s2res>>
                /\ UNCHANGED notStage2

\* plt_show(liver_conn_comp) and plt_show(input_volume, pixel_coords): the
\* second takes np.size of pixel_coords, a list of two arrays and a number.
\* The numpy versions that refuse to make an array of such a list raise
\* ValueError there; the older ones count three elements and the display
\* is made.  A display is no step of the processing and is not logged.
S2PltShow ==
    /\ s2pc = "show"
    /\ \E refused \in BOOLEAN :
         IF refused
         THEN /\ s2pc' = "done"
              /\ s2res' = [S2NoResult EXCEPT !.state = "raised",
                                             !.exc = "ValueError"]
         ELSE /\ s2pc' = "grow"
              /\ UNCHANGED s2res
    /\ UNCHANGED <<s2in, s2loc, s2calls>>
    /\ UNCHANGED notStage2

\* rg_seg = mt.region_growing(vol, seed_list, multiplier=2.5,
\*                            initialNeighborhoodRadius=0)
S2RegionGrowing ==
    /\ S2Step("grow", "opening",
              Called2("region_growing", s2loc.vol, <<>>, <<0>>,
                      s2loc.seed_list, Multiplier))
    /\ s2loc' = [s2loc EXCEPT !.rg_seg = Append(s2loc.vol, "region_growing")]

\* rg_seg = pp.binary_opening(rg_seg, radius=2)
S2BinaryOpening ==
    /\ S2Step("opening", "mask_input",
              Called2("binary_opening", s2loc.rg_seg, <<>>, <<2>>, <<>>,
                      Frac(0, 1)))
    /\ s2loc' = [s2loc EXCEPT !.rg_seg = Append(@, "binary_opening")]

\* seg_volume = pp.mask_filter(input_volume, rg_seg)
S2MaskInput ==
    /\ S2Step("mask_input", "return",
              Called2("mask_filter", <<"input_volume">>, s2loc.rg_seg, <<>>,
                      <<>>, Frac(0, 1)))
    /\ s2loc' = [s2loc EXCEPT !.seg_volume = <<"input_volume", "mask_filter">>]

\* return (seg_volume, rg_seg)
S2Return ==
    /\ s2pc = "return"
    /\ s2pc' = "done"
    /\ s2res' = [state |-> "returned", seg_volume |-> s2loc.seg_volume,
                 rg_seg |-> s2loc.rg_seg, exc |-> "none"]
    /\ UNCHANGED <<s2in, s2loc, s2calls>>
    /\ UNCHANGED notStage2

(***************************************************************************)
(* Specifications.  Each runs one part; the variables of the other parts   *)
(* keep the values given here.                                             *)
(***************************************************************************)
MainIdle ==
    /\ caller = "nobody"
    /\ args = [subparser |-> "osrg", ground_truth |-> "None",
               save_binary |-> FALSE, output |-> <<"o">>]
    /\ env = [input |-> [archive |-> FALSE, file_name |-> "vol",
                         content |-> "absent"],
              ground_truth |-> [archive |-> FALSE, file_name |-> "seg",
                                content |-> "absent"]]
    /\ pc = "idle"
    /\ locals = Unbound
    /\ calls = <<>>
    /\ files = <<>>
    /\ error = "none"

ReadIdle ==
    /\ rin = [p \in Invocations |->
                [archive |-> FALSE, file_name |-> "vol", content |-> "absent"]]
    /\ rpc = [p \in Invocations |-> "idle"]
    /\ rerr = [p \in Invocations |-> "none"]
    /\ temp = [exists |-> FALSE, data |-> NoData]
    /\ written = [p \in Invocations |-> 0]
    /\ entries = [p \in Invocations |-> {}]
    /\ removedBeforeRead = [p \in Invocations |-> FALSE]

WriteIdle ==
    /\ wcall = [output_file_name |-> <<"o">>, save_binary |-> FALSE]
    /\ wres = [state |-> "idle", name |-> <<>>, exc |-> "none"]

FbmIdle ==
    /\ img = <<>>
    /\ slice = 0
    /\ biggest_mask_area = 0
    /\ biggest_mask_slice_idx = 0
    /\ fpc = "idle"

FilterIdle ==
    /\ fcall = [filter |-> "mean_filter", radius |-> 1, iters |-> 1]
    /\ fres = [state |-> "idle", executed |-> 0, exc |-> "none"]

EvalIdle ==
    /\ ecall = [seg |-> <<>>, gt |-> <<>>]
    /\ eres = [state |-> "idle", params |-> <<>>, exc |-> "none"]

MethodsIdle ==
    /\ mcall = [fn |-> "none", img |-> NoSlice, number_of_pixels |-> 0,
                x_pixels |-> <<>>, y_pixels |-> <<>>, slice_idx |-> 0]
    /\ mlog = <<>>
    /\ bitgen = DefaultRng(RngSeed)

SigmoidIdle ==
    /\ sgcall = [img |-> [i \in 1 .. 2 |-> "ramp_x"], slice_idx |-> 0,
                 pixel |-> <<0, 0, 0>>]
    /\ sgres = SigmoidIdleResult

Stage1Idle ==
    /\ s1in = NoVolume
    /\ s1gt = NoGroundTruth
    /\ s1pc = "idle"
    /\ s1loc = S1Locals
    /\ s1stack = NoVolume
    /\ s1calls = <<>>
    /\ s1res = [S1NoResult EXCEPT !.state = "idle"]

Stage2Idle ==
    /\ s2in = [slice_where_to_pick_seeds |-> 0,
               eroded |-> [w |-> 1, h |-> 1, fg |-> {}]]
    /\ s2pc = "idle"
    /\ s2loc = S2Locals
    /\ s2calls = <<>>
    /\ s2res = [S2NoResult EXCEPT !.state = "idle"]

Init ==
    MainInit /\ ReadIdle /\ WriteIdle /\ FbmIdle /\ FilterIdle /\ EvalIdle /\ MethodsIdle /\ SigmoidIdle /\ Stage1Idle /\ Stage2Idle

Next ==
    \/ ParseArgs
    \/ MainReadInput
    \/ MainReadGroundTruth
    \/ MainStage1
    \/ MainStage2
    \/ MainEvaluate
    \/ MainWriteSegVolume
    \/ MainWriteSegBinary

Spec == Init /\ [][Next]_vars

InitRead ==
    MainIdle /\ ReadInit /\ WriteIdle /\ FbmIdle /\ FilterIdle /\ EvalIdle /\ MethodsIdle /\ SigmoidIdle /\ Stage1Idle /\ Stage2Idle

NextRead ==
    \E p \in Invocations :
      \/ Extract(p)
      \/ ReadImage(p)
      \/ Rmtree(p)

SpecRead == InitRead /\ [][NextRead]_vars

InitWrite ==
    MainIdle /\ ReadIdle /\ WriteInit /\ FbmIdle /\ FilterIdle /\ EvalIdle /\ MethodsIdle /\ SigmoidIdle /\ Stage1Idle /\ Stage2Idle

NextWrite ==
    WriteVolume

SpecWrite == InitWrite /\ [][NextWrite]_vars

InitFBM ==
    MainIdle /\ ReadIdle /\ WriteIdle /\ FbmInit /\ FilterIdle /\ EvalIdle /\ MethodsIdle /\ SigmoidIdle /\ Stage1Idle /\ Stage2Idle

NextFBM ==
    \/ FbmIter
    \/ FbmReturn

SpecFBM == InitFBM /\ [][NextFBM]_vars

InitFilter ==
    MainIdle /\ ReadIdle /\ WriteIdle /\ FbmIdle /\ FilterInit /\ EvalIdle /\ MethodsIdle /\ SigmoidIdle /\ Stage1Idle /\ Stage2Idle

NextFilter ==
    FilterCall

SpecFilter == InitFilter /\ [][NextFilter]_vars

InitEval ==
    MainIdle /\ ReadIdle /\ WriteIdle /\ FbmIdle /\ FilterIdle /\ EvalInit /\ MethodsIdle /\ SigmoidIdle /\ Stage1Idle /\ Stage2Idle

NextEval ==
    EvaluateCall

SpecEval == InitEval /\ [][NextEval]_vars

InitMethods ==
    MainIdle /\ ReadIdle /\ WriteIdle /\ FbmIdle /\ FilterIdle /\ EvalIdle /\ MethodsInit /\ SigmoidIdle /\ Stage1Idle /\ Stage2Idle

NextMethods ==
    \/ FindCentroid
    \/ PickRandomPixels
    \/ CreateSeedListCall

SpecMethods == InitMethods /\ [][NextMethods]_vars

InitSigmoid ==
    MainIdle /\ ReadIdle /\ WriteIdle /\ FbmIdle /\ FilterIdle /\ EvalIdle /\ MethodsIdle /\ SigmoidInit /\ Stage1Idle /\ Stage2Idle

NextSigmoid ==
    SigmoidFilterCall

SpecSigmoid == InitSigmoid /\ [][NextSigmoid]_vars

InitStage1 ==
    MainIdle /\ ReadIdle /\ WriteIdle /\ FbmIdle /\ FilterIdle /\ EvalIdle /\ MethodsIdle /\ SigmoidIdle /\ Stage1Init /\ Stage2Idle

NextStage1 ==
    \/ S1Crop
    \/ S1MeanFilter
    \/ S1Threshold
    \/ S1FindBiggestMask
    \/ S1FindCentroid
    \/ S1PltShow
    \/ S1MeanFilterInput
    \/ S1SigmoidFilter
    \/ S1HistogramEqualization
    \/ S1RegionGrowing
    \/ S1BinaryOpening
    \/ S1BinaryClosingBr
    \/ S1BinaryClosing
    \/ S1Return

SpecStage1 == InitStage1 /\ [][NextStage1]_vars

InitStage2 ==
    MainIdle /\ ReadIdle /\ WriteIdle /\ FbmIdle /\ FilterIdle /\ EvalIdle /\ MethodsIdle /\ SigmoidIdle /\ Stage1Idle /\ Stage2Init

NextStage2 ==
    \/ S2MeanFilter
    \/ S2MaskFilter
    \/ S2HistogramEqualization
    \/ S2Erode
    \/ S2PickRandomPixels
    \/ S2CreateSeedList
    \/ S2PltShow
    \/ S2RegionGrowing
    \/ S2BinaryOpening
    \/ S2MaskInput
    \/ S2Return

SpecStage2 == InitStage2 /\ [][NextStage2]_vars

InitSeeding ==
    /\ MainIdle /\ ReadIdle /\ WriteIdle /\ FbmIdle /\ FilterIdle /\ EvalIdle /\ SigmoidIdle /\ Stage1Idle
    /\ \/ MethodsInit /\ Stage2Idle
       \/ MethodsIdle /\ Stage2Init

NextSeeding ==
    \/ NextMethods
    \/ NextStage2

SpecSeeding == InitSeeding /\ [][NextSeeding]_vars

(***************************************************************************)
(* Properties of a run of main (checked under Spec)                        *)
(***************************************************************************)
Ended == pc \in {"done", "failed"}

\* exceptions that come from the disk or from an external filter
ExternalErrors == {"FileNotFoundError", "KeyError", "RuntimeError"}

CallsOf(fn) == {i \in DOMAIN calls : calls[i].fn = fn}

\* position of a call in the order read -> stage 1 -> stage 2 -> evaluation
\* -> write-out
Rank(fn) ==
    CASE fn = "parse_args" -> 0
      [] fn = "read_zipped_nifti" -> 1
      [] fn = "one_seed_rg.main" -> 2
      [] fn = "multi_seed_rg.main" -> 3
      [] fn = "evaluate" -> 4
      [] fn = "write_volume" -> 5

\* C1: a run of osrg or msrg with a readable input and no ground truth, in
\* which neither the disk nor a filter fails, skips evaluation and ends with
\* write_volume called on the segmentation under the given output name.
C1_WriteOutWithoutGroundTruth ==
    (/\ Ended
     /\ args.ground_truth = "None"
     /\ ReadAlone(env.input) = "none"
     /\ error \notin ExternalErrors)
    => /\ CallsOf("evaluate") = {}
       /\ \E i \in CallsOf("write_volume") :
            calls[i].a = <<locals.seg_volume, FALSE>>

\* C2: the calls of a run come in the order read, stage 1, stage 2,
\* evaluation, write-out; osrg never runs stage 2; an msrg run in which stage
\* 1 returned runs stage 1 once and then stage 2 once, on the input volume
\* and the mask and slice index stage 1 returned; evaluation runs only with
\* a ground truth, on the binary mask of the last stage.
C2_StagesInOrder ==
    /\ \A i, j \in DOMAIN calls :
         i < j => Rank(calls[i].fn) <= Rank(calls[j].fn)
    /\ args.subparser = "osrg" => CallsOf("multi_seed_rg.main") = {}
    /\ (/\ Ended
        /\ args.subparser = "msrg"
        /\ \E i \in CallsOf("one_seed_rg.main") : calls[i].ok)
       => /\ Cardinality(CallsOf("one_seed_rg.main")) = 1
          /\ Cardinality(CallsOf("multi_seed_rg.main")) = 1
          /\ \A i \in CallsOf("multi_seed_rg.main") :
               calls[i].a =
                 <<"input_volume",
                   OneSeedRgMain("input_volume", locals.ground_truth)[1],
                   OneSeedRgMain("input_volume", locals.ground_truth)[2]>>
    /\ \A i \in CallsOf("evaluate") :
         /\ args.ground_truth # "None"
         /\ calls[i].a[1] = locals.seg_binary

HasBaseAndExt(name) ==
    /\ Len(Split(name)) = 2
    /\ Split(name)[1] # <<>>
    /\ Split(name)[2] # <<>>

\* C4: for a name <base>.<ext>, write_volume with save_binary hands the
\* writer <base>_binary.<ext>, and without it the name as given.
C4_BinaryBeforeExtension ==
    (wres.state \in {"written", "raised"}
       /\ HasBaseAndExt(wcall.output_file_name))
    => wres.name =
         IF wcall.save_binary
         THEN Split(wcall.output_file_name)[1] \o BinaryTag \o <<".">>
                \o Split(wcall.output_file_name)[2]
         ELSE wcall.output_file_name

(***************************************************************************)
(* Properties of read_zipped_nifti (checked under SpecRead)                *)
(***************************************************************************)
InProgress(p) == rpc[p] \notin {"extract", "returned", "failed"}

HasEnded(p) == rpc[p] \in {"returned", "failed"}

\* the invocation's archive exists and holds a NIfTI volume under the name
ValidInput(p) == rin[p].archive /\ rin[p].content = "nifti"

\* C5: once a call has ended, by a return or by an exception, and no other
\* call is under way, ~/liver/temp does not exist.
C5_TempRemovedAfterCall ==
    ((\E p \in Invocations : HasEnded(p))
       /\ \A p \in Invocations : ~InProgress(p))
    => ~temp.exists

\* C6: nothing protects ~/liver/temp.  When one invocation removes the
\* directory after the other has extracted its member and before the other
\* has read it, the other, though its archive and member are valid, does not
\* return: its read fails, with RuntimeError.
C6_RemovedBeforeReadFails ==
    \A p \in Invocations :
      (ValidInput(p) /\ removedBeforeRead[p])
      => /\ rpc[p] \in {"read", "failed"}
         /\ rpc[p] = "failed" => rerr[p] = "RuntimeError"

\* the interleaving: both invocations are valid; one has returned, having
\* removed the directory while the other stood between its extract and its
\* read, and the other's read has failed
C6_Witness ==
    \E p, q \in Invocations :
      /\ p # q
      /\ ValidInput(p) /\ ValidInput(q)
      /\ rpc[q] = "returned"
      /\ removedBeforeRead[p]
      /\ rpc[p] = "failed" /\ rerr[p] = "RuntimeError"

(***************************************************************************)
(* Properties of find_biggest_mask (checked under SpecFBM)                 *)
(***************************************************************************)
\* nonzero count of the slice with index i
AreaOf(i) == CountNonzero(img[i + 1])

\* C7: the index returned is in range, its slice has the largest nonzero
\* count of the stack, and no slice before it reaches that count.
C7_FirstBiggestSlice ==
    fpc = "returned"
    => /\ biggest_mask_slice_idx \in 0..(Len(img) - 1)
       /\ \A j \in 0..(Len(img) - 1) :
            AreaOf(j) <= AreaOf(biggest_mask_slice_idx)
       /\ \A j \in 0..(biggest_mask_slice_idx - 1) :
            AreaOf(j) < AreaOf(biggest_mask_slice_idx)

\* a tie: a later slice has the same, largest, count as the one returned
C7_Witness ==
    /\ fpc = "returned"
    /\ AreaOf(biggest_mask_slice_idx) > 0
    /\ \E j \in (biggest_mask_slice_idx + 1)..(Len(img) - 1) :
         AreaOf(j) = AreaOf(biggest_mask_slice_idx)

\* every slice empty: index 0 is returned
C7_WitnessEmpty ==
    /\ fpc = "returned"
    /\ Len(img) > 1
    /\ \A j \in 0..(Len(img) - 1) : AreaOf(j) = 0
    /\ biggest_mask_slice_idx = 0

(***************************************************************************)
(* Properties of the radius-based filters (checked under SpecFilter)       *)
(***************************************************************************)
\* C8: a radius <= 0 is rejected with ValueError before any Execute, and a
\* radius >= 1 never raises ValueError; for erode whatever iters is.
C8_RadiusChecked ==
    fres.state \in {"returned", "raised"}
    => /\ fcall.radius <= 0 =>
            /\ fres.state = "raised"
            /\ fres.exc = "ValueError"
            /\ fres.executed = 0
       /\ fcall.radius >= 1 => fres.exc # "ValueError"

\* erode with iters = 0 and radius 0 has been rejected
C8_Witness ==
    /\ fcall.filter = "erode"
    /\ fcall.iters = 0
    /\ fcall.radius = 0
    /\ fres.state = "raised"
    /\ fres.exc = "ValueError"

(***************************************************************************)
(* Properties of evaluate (checked under SpecEval; C10, which follows the  *)
(* exception into the run of main that made the call, under Spec)          *)
(***************************************************************************)
Zero == Frac(0, 1)
One == Frac(1, 1)

NonEmpty(m) == \E i \in DOMAIN m : m[i] # 0

\* C9: evaluate on two identical non-empty {0,1} masks returns
\* [VOE, RVD, Dice, Jaccard, ASSD] = [0, 0, 1, 1, 0].
C9_IdenticalMasks ==
    (/\ eres.state \in {"returned", "raised"}
     /\ ecall.seg = ecall.gt
     /\ NonEmpty(ecall.seg))
    => /\ eres.state = "returned"
       /\ eres.params = <<Zero, Zero, One, One, Zero>>

C9_Witness ==
    /\ eres.state = "returned"
    /\ ecall.seg = ecall.gt
    /\ NonEmpty(ecall.seg)
    /\ \E i \in DOMAIN ecall.seg : ecall.seg[i] = 0

\* C10: when the ground truth has no voxel of label 1, evaluate raises
\* ZeroDivisionError and returns no list, whatever the segmentation; the
\* run of main that called it ends with that exception, before any
\* write_volume: no output file has been written.
C10_EmptyGroundTruthRaises ==
    (/\ CallsOf("evaluate") # {}
     /\ \A i \in DOMAIN ecall.gt : ecall.gt[i] # 1)
    => /\ eres.state = "raised"
       /\ eres.exc = "ZeroDivisionError"
       /\ eres.params = <<>>
       /\ locals.params = "unbound"
       /\ pc = "failed"
       /\ error = "ZeroDivisionError"
       /\ CallsOf("write_volume") = {}
       /\ files = <<>>

\* a run asked to save the binary mask too, ended by evaluate on a
\* non-empty segmentation against a ground truth that holds only tumor
\* labels
C10_Witness ==
    /\ pc = "failed"
    /\ error = "ZeroDivisionError"
    /\ args.save_binary
    /\ eres.state = "raised"
    /\ NonEmpty(ecall.seg)
    /\ \E i \in DOMAIN ecall.gt : ecall.gt[i] = 2
    /\ \A i \in DOMAIN ecall.gt : ecall.gt[i] # 1
    /\ files = <<>>

\* the voxels of the segmentation, and those of the ground truth with label
\* exactly 1
SetA == {i \in DOMAIN ecall.seg : ecall.seg[i] # 0}
SetB == {i \in DOMAIN ecall.gt : ecall.gt[i] = 1}

\* C11: for a ground truth with a voxel of label 1, evaluate returns
\* VOE = 100 * (1 - |A n B| / |A u B|) and RVD = 100 * |(|A| - |B|) / |B||,
\* A the segmentation and B the voxels of label exactly 1.
C11_VoeAndRvd ==
    (eres.state \in {"returned", "raised"} /\ SetB # {})
    => /\ eres.state = "returned"
       /\ Len(eres.params) = 5
       /\ eres.params[1] =
            Frac(100 * (Cardinality(SetA \cup SetB)
                          - Cardinality(SetA \cap SetB)),
                 Cardinality(SetA \cup SetB))
       /\ eres.params[2] =
            Frac(100 * Abs(Cardinality(SetA) - Cardinality(SetB)),
                 Cardinality(SetB))

\* a ground truth with liver and tumor, the segmentation covering the tumor
C11_Witness ==
    /\ eres.state = "returned"
    /\ SetB # {}
    /\ \E i \in DOMAIN ecall.gt : ecall.gt[i] = 2 /\ ecall.seg[i] = 1
    /\ SetA # SetB


(***************************************************************************)
(* Properties of the seed-selection functions (checked under SpecMethods)  *)
(***************************************************************************)
\* the labels of the slice of the call, with their pixels
LabelsOfCall == ConnectedComponentsWithStats(mcall.img).labels

\* the largest of left, top, width, height and area of a set of pixels
StatisticMax(c) ==
    MaxOf({Min({p[1] : p \in c}), Min({p[2] : p \in c}),
           MaxOf({p[1] : p \in c}) - Min({p[1] : p \in c}) + 1,
           MaxOf({p[2] : p \in c}) - Min({p[2] : p \in c}) + 1,
           Cardinality(c)})

\* v is the second largest of the maxima of the labels
IsSecondLargest(v) ==
    \E top \in DOMAIN LabelsOfCall :
      /\ \A l \in DOMAIN LabelsOfCall :
           StatisticMax(LabelsOfCall[l]) <= StatisticMax(LabelsOfCall[top])
      /\ \E l \in DOMAIN LabelsOfCall \ {top} :
           /\ StatisticMax(LabelsOfCall[l]) = v
           /\ \A m \in DOMAIN LabelsOfCall \ {top} :
                StatisticMax(LabelsOfCall[m]) <= v

\* xy is the centroid of the pixel set c, each coordinate truncated
IsTruncatedCentroid(xy, c) ==
    /\ Len(xy) = 2
    /\ \A i \in 1 .. 2 :
         /\ xy[i] * Cardinality(c) <= SumSet(c, i)
         /\ SumSet(c, i) < (xy[i] + 1) * Cardinality(c)

\* the slice holds exactly one foreground component, smaller than the
\* background
OneSmallComponent ==
    /\ mcall.img.fg # {}
    /\ ComponentOf(CHOOSE p \in mcall.img.fg : TRUE, mcall.img.fg)
         = mcall.img.fg
    /\ Cardinality(mcall.img.fg)
         < mcall.img.w * mcall.img.h - Cardinality(mcall.img.fg)

CentroidOfSecondLargest ==
    \A k \in DOMAIN mlog :
      (mcall.fn = "find_centroid" /\ mlog[k].exc = "none")
      => \E l \in DOMAIN LabelsOfCall :
           /\ IsSecondLargest(StatisticMax(LabelsOfCall[l]))
           /\ IsTruncatedCentroid(mlog[k].value, LabelsOfCall[l])

\* C14 as stated: find_centroid returns the truncated centroid of a label
\* whose statistic maximum is the second largest, the background included;
\* on a slice with exactly one foreground component, smaller than the
\* background, it returns the centroid of that component.
C14_CentroidOfForeground ==
    /\ CentroidOfSecondLargest
    /\ \A k \in DOMAIN mlog :
         (mcall.fn = "find_centroid" /\ OneSmallComponent)
         => /\ mlog[k].exc = "none"
            /\ IsTruncatedCentroid(mlog[k].value, mcall.img.fg)


\* the pairs (x_i, y_i) an outcome of pick_random_pixels holds
PairsOf(outcome) ==
    [i \in DOMAIN outcome.value[1] |->
       <<outcome.value[1][i], outcome.value[2][i]>>]

\* the selected component holds at least number_of_pixels pixels
EnoughPixels(outcome) ==
    /\ outcome.exc # "IndexError"
    /\ Cardinality(LabelsOfCall[outcome.label]) >= mcall.number_of_pixels

\* C13: on a slice whose selected component holds at least number_of_pixels
\* pixels, pick_random_pixels returns exactly number_of_pixels pairs
\* (x_i, y_i), pairwise distinct, each a pixel of the selected component;
\* two calls on the same slice return the same pairs in the same order.
C13_DistinctPixelsOfComponent ==
    mcall.fn = "pick_random_pixels"
    => /\ \A k \in DOMAIN mlog :
            EnoughPixels(mlog[k])
            => /\ mlog[k].exc = "none"
               /\ Len(mlog[k].value) = 2
               /\ Len(mlog[k].value[1]) = mcall.number_of_pixels
               /\ Len(mlog[k].value[2]) = mcall.number_of_pixels
               /\ \A i, j \in 1 .. mcall.number_of_pixels :
                    i # j => PairsOf(mlog[k])[i] # PairsOf(mlog[k])[j]
               /\ \A i \in 1 .. mcall.number_of_pixels :
                    PairsOf(mlog[k])[i] \in LabelsOfCall[mlog[k].label]
       /\ \A j, k \in DOMAIN mlog :
            (EnoughPixels(mlog[j]) /\ EnoughPixels(mlog[k]))
            => mlog[j].value = mlog[k].value

\* two calls, each drawing two pixels from a component of a slice with two
\* rows and two columns at least, the pixels differing in x and in y, the
\* generator of the second call having made a draw
C13_Witness ==
    /\ mcall.fn = "pick_random_pixels"
    /\ Len(mlog) = 2
    /\ mcall.number_of_pixels = 2
    /\ mcall.img.w >= 2 /\ mcall.img.h >= 2
    /\ mlog[1].label # 0
    /\ mlog[2].exc = "none"
    /\ mlog[2].value[1][1] # mlog[2].value[1][2]
    /\ mlog[2].value[2][1] # mlog[2].value[2][2]
    /\ mlog[2].value[1] # mlog[2].value[2]
    /\ bitgen.drawn > 0


(***************************************************************************)
(* Properties of sigmoid_filter (checked under SpecSigmoid)                *)
(***************************************************************************)
\* the supplied pixel lies in the middle of the interval lo .. hi
InTheMiddle(p, lo, hi) ==
    /\ lo <= p /\ p <= hi
    /\ (p - lo) - (hi - p) \in {-1, 0, 1}

\* C18: sigmoid_filter takes alpha = max - min and beta = mean from a region
\* of 20 x 20 samples of the chosen slice with the supplied pixel in its
\* middle; the output bounds are the minimum and maximum of the full slice.
C18_RoiCentredOnPixel ==
    sgres.state = "returned"
    => /\ sgres.roi.x1 - sgres.roi.x0 + 1 = RoiSize
       /\ sgres.roi.y1 - sgres.roi.y0 + 1 = RoiSize
       /\ InTheMiddle(sgcall.pixel[1], sgres.roi.x0, sgres.roi.x1)
       /\ InTheMiddle(sgcall.pixel[2], sgres.roi.y0, sgres.roi.y1)
       /\ sgres.alpha =
            Statistics(sgcall.img[sgcall.slice_idx + 1], sgres.roi).maximum
            - Statistics(sgcall.img[sgcall.slice_idx + 1], sgres.roi).minimum
       /\ sgres.beta =
            Statistics(sgcall.img[sgcall.slice_idx + 1], sgres.roi).mean
       /\ sgres.output_minimum =
            Statistics(sgcall.img[sgcall.slice_idx + 1], FullSlice).minimum
       /\ sgres.output_maximum =
            Statistics(sgcall.img[sgcall.slice_idx + 1], FullSlice).maximum


(***************************************************************************)
(* Properties of stage 1 (checked under SpecStage1)                        *)
(***************************************************************************)
Step(fn, image, arguments) == [fn |-> fn, img |-> image, args |-> arguments]

StepOf(call) == Step(call.fn, call.img, call.args)

\* the steps up to find_centroid, sl being the slice find_biggest_mask gave
SeedSearchSteps(sl) ==
    <<Step("crop_right_half", <<"input_volume">>, <<>>),
      Step("mean_filter", <<"input_volume", "crop_right_half">>, <<2>>),
      Step("threshold",
           <<"input_volume", "crop_right_half", "mean_filter">>,
           <<130, 60, 1, 0>>),
      Step("find_biggest_mask",
           <<"input_volume", "crop_right_half", "mean_filter", "threshold">>,
           <<>>),
      Step("find_centroid",
           <<"input_volume", "crop_right_half", "mean_filter", "threshold">>,
           <<sl>>)>>

\* the steps from the contrast enhancement of the image `enhanced` on
GrowSteps(enhanced, sl) ==
    LET sigmoid == Append(enhanced, "sigmoid_filter")
        equalized == Append(sigmoid, "histogram_equalization")
        grown == Append(equalized, "region_growing")
    IN  <<Step("sigmoid_filter", enhanced, <<sl>>),
          Step("histogram_equalization", sigmoid, <<>>),
          Step("region_growing", equalized, <<2>>),
          Step("binary_opening", grown, <<2>>),
          Step("binary_closing_br", Append(grown, "binary_opening"), <<10>>),
          Step("binary_closing",
               grown \o <<"binary_opening", "binary_closing_br">>, <<3>>)>>

\* the calls made so far are the first steps of `steps`; the contrast
\* enhancement and the growing take the seed [x, y, slice], the growing the
\* multiplier 2.5; a run that returns has made every step and returns the
\* mask of the last step with the slice index of the seed
FollowsSteps(steps) ==
    /\ Len(s1calls) <= Len(steps)
    /\ \A i \in DOMAIN s1calls :
         /\ StepOf(s1calls[i]) = steps[i]
         /\ s1calls[i].fn \in {"sigmoid_filter", "region_growing"}
            => /\ s1calls[i].seed = <<s1loc.centroid>>
               /\ Len(s1loc.centroid) = 3
               /\ s1loc.centroid[3] = s1loc.slice_of_the_largest_mask
         /\ s1calls[i].fn = "region_growing"
            => s1calls[i].multiplier = Frac(5, 2)
    /\ s1res.state = "returned"
       => /\ Len(s1calls) = Len(steps)
          /\ s1res.rg_seg
               = Append(steps[Len(steps)].img, steps[Len(steps)].fn)
          /\ \E i \in DOMAIN s1calls :
               /\ s1calls[i].fn = "region_growing"
               /\ s1res.slice_of_the_largest_mask = s1calls[i].seed[1][3]

\* C15 as stated: crop, mean filter 2, threshold 60/130, largest-mask slice,
\* centroid, contrast enhancement of the original volume, histogram
\* equalization, growing from [x, y, slice] (2.5, radius 2), opening 2,
\* closing by reconstruction 10, closing 3; the mask and the slice returned.
C15_StepsAsListed ==
    FollowsSteps(SeedSearchSteps(s1loc.slice_of_the_largest_mask)
                 \o GrowSteps(<<"input_volume">>,
                              s1loc.slice_of_the_largest_mask))

\* C15 (amended): as listed, but after the centroid the original volume is
\* first mean-filtered with radius 2, and it is this filtered volume that is
\* contrast-enhanced.
C15_StepsInOrder ==
    FollowsSteps(SeedSearchSteps(s1loc.slice_of_the_largest_mask)
                 \o <<Step("mean_filter", <<"input_volume">>, <<2>>)>>
                 \o GrowSteps(<<"input_volume", "mean_filter">>,
                              s1loc.slice_of_the_largest_mask))

\* a run that returned, from a seed found on another slice than the first
C15_Witness ==
    /\ s1res.state = "returned"
    /\ s1res.slice_of_the_largest_mask > 0
    /\ Len(s1calls) = 12


\* the input is a stack of three slices whose only samples inside the band
\* [60, 130] form one rectangle on slice 1, in the part the crop keeps
RectangleOnSliceOne ==
    /\ s1in.size[3] = 3
    /\ DOMAIN s1in.near # {}
    /\ \A p \in DOMAIN s1in.near :
         /\ p[3] = 1
         /\ InBand(s1in.near[p], s1in.den, 130, 60)
         /\ \E q \in DOMAIN CropRightHalf(s1in).near : CropSource(q) = p
    /\ \A k \in DOMAIN s1in.far : ~InBand(s1in.far[k], s1in.den, 130, 60)

SeedSearchDone ==
    s1pc \notin {"idle", "crop", "mean", "threshold", "find_biggest_mask",
                 "find_centroid"}

\* C12: on a 3-slice volume whose only samples inside the band [60, 130] form
\* a single rectangle on slice 1, in the part kept by the crop, stage 1
\* selects slice 1 and the centroid it computes, the seed of the growing, has
\* x and y inside that rectangle.
C12_SeedInsideRectangle ==
    RectangleOnSliceOne /\ SeedSearchDone
    => /\ s1loc.slice_of_the_largest_mask = 1
       /\ Len(s1loc.centroid) = 3
       /\ <<s1loc.centroid[1], s1loc.centroid[2], 1>> \in DOMAIN s1in.near


\* find_centroid returned: the seed [x, y, slice] is bound
SeedFound == SeedSearchDone /\ Len(s1loc.centroid) = 3

\* the labelling of the chosen slice of the cropped, thresholded stack
S1Components ==
    ConnectedComponentsWithStats(
        BinarySliceOf(s1stack, s1loc.slice_of_the_largest_mask))

\* an index of the cropped volume denotes the same sample in the original
\* one: the crop removes nothing below any index (lower size 0 on every
\* axis) and 256 samples above, on x only
IndexPreserved ==
    /\ BoundaryCropSizes.lower = <<0, 0, 0>>
    /\ BoundaryCropSizes.upper = <<256, 0, 0>>
    /\ LET cropped == CropRightHalf(s1in)
       IN  /\ cropped.size = <<s1in.size[1] - 256, s1in.size[2], s1in.size[3]>>
           /\ \A q \in DOMAIN cropped.near :
                /\ CropSource(q) = q
                /\ q \in DOMAIN s1in.near
                /\ cropped.near[q] = s1in.near[q]
           /\ \A q \in DOMAIN s1in.near :
                InsideVolume(q, cropped.size) => q \in DOMAIN cropped.near

\* the seed is the index find_centroid computed on the cropped stack, used
\* unchanged on images made from the un-cropped volume, of which it is a
\* sample
SeedInsideOriginal ==
    SeedFound
    => /\ s1loc.centroid
            = FindCentroidOf(S1Components, s1loc.liver_label)
                \o <<s1loc.slice_of_the_largest_mask>>
       /\ InsideVolume(s1loc.centroid, CropRightHalf(s1in).size)
       /\ CropSource(s1loc.centroid) = s1loc.centroid
       /\ InsideVolume(s1loc.centroid, s1in.size)
       /\ \A i \in DOMAIN s1calls :
            s1calls[i].fn \in {"sigmoid_filter", "region_growing"}
            => /\ s1calls[i].seed = <<s1loc.centroid>>
               /\ s1calls[i].img[1] = "input_volume"
               /\ \A k \in DOMAIN s1calls[i].img :
                    s1calls[i].img[k] # "crop_right_half"

\* C19 as stated: the crop preserves every index, so the seed lies inside the
\* original volume and on the component found in the cropped one.
C19_SeedOnComponent ==
    /\ s1pc # "idle" => IndexPreserved
    /\ SeedInsideOriginal
    /\ SeedFound
       => <<s1loc.centroid[1], s1loc.centroid[2]>>
            \in S1Components.labels[s1loc.liver_label]

\* C19 (amended): the crop preserves every index, so the seed, computed on
\* the cropped volume, lies inside the original volume and denotes there the
\* sample it denotes in the cropped one; it is the centroid of the component
\* found, which need not be a pixel of that component.
C19_SeedInsideOriginal ==
    /\ s1pc # "idle" => IndexPreserved
    /\ SeedInsideOriginal

\* a seed found on a component that lies off the origin of the slice, used
\* by the growing
C19_Witness ==
    /\ SeedFound
    /\ s1loc.liver_label > 0
    /\ s1loc.centroid[1] >= 100
    /\ DOMAIN CropRightHalf(s1in).near # {}
    /\ \E i \in DOMAIN s1calls : s1calls[i].fn = "region_growing"


(***************************************************************************)
(* Properties of stage 2 (checked under SpecStage2)                        *)
(***************************************************************************)
Step2(fn, image, mask, arguments) ==
    [fn |-> fn, img |-> image, mask |-> mask, args |-> arguments]

StepOf2(call) == Step2(call.fn, call.img, call.mask, call.args)

\* the volume after the mean filter, the masking with the stage-1 output and
\* the histogram equalization
Enhanced ==
    <<"input_volume", "mean_filter", "mask_filter", "histogram_equalization">>

\* the growing's result after the opening
OpenedGrowResult == Enhanced \o <<"region_growing", "binary_opening">>

\* the steps of stage 2, sl being the slice index it received
Stage2Steps(sl) ==
    <<Step2("mean_filter", <<"input_volume">>, <<>>, <<3>>),
      Step2("mask_filter", <<"input_volume", "mean_filter">>,
            <<"segmentation">>, <<>>),
      Step2("histogram_equalization",
            <<"input_volume", "mean_filter", "mask_filter">>, <<>>, <<>>),
      Step2("erode", <<"segmentation", "slice">>, <<>>, <<1, 3, sl>>),
      Step2("pick_random_pixels", <<"segmentation", "slice", "erode">>,
            <<>>, <<30>>),
      Step2("create_seed_list", <<>>, <<>>, <<30>>),
      Step2("region_growing", Enhanced, <<>>, <<0>>),
      Step2("binary_opening", Append(Enhanced, "region_growing"), <<>>,
            <<2>>),
      Step2("mask_filter", <<"input_volume">>, OpenedGrowResult, <<>>)>>

\* the calls made so far are the first steps of stage 2; the growing starts
\* from 30 seeds with the multiplier 2.5; a run that returns has made every
\* step and its second value is the opened result of the growing
FollowsStage2Steps ==
    LET steps == Stage2Steps(s2in.slice_where_to_pick_seeds)
    IN  /\ Len(s2calls) <= Len(steps)
        /\ \A i \in DOMAIN s2calls :
             /\ StepOf2(s2calls[i]) = steps[i]
             /\ s2calls[i].fn = "region_growing"
                => /\ Len(s2calls[i].seed) = 30
                   /\ s2calls[i].seed = s2loc.seed_list
                   /\ s2calls[i].multiplier = Frac(5, 2)
        /\ s2res.state = "returned"
           => /\ Len(s2calls) = Len(steps)
              /\ s2res.rg_seg = OpenedGrowResult

\* C16 as stated: mean filter 3 of the original volume, masking with the
\* stage-1 output, histogram equalization, erosion of the stage-1 mask at the
\* chosen slice (radius 1, 3 iterations), 30 seed pixels, growing from all of
\* them (2.5, radius 0) on the enhanced volume, opening 2, masking of the
\* original volume with the result; the enhanced volume and the opened mask
\* are returned.
C16_ReturnsEnhancedVolume ==
    /\ FollowsStage2Steps
    /\ s2res.state = "returned" => s2res.seg_volume = Enhanced

\* C16 (amended): the same steps in the same order; the values returned are
\* the original volume masked with the opened result of the growing (the
\* output of the last step) and that opened result, not the enhanced volume.
C16_StepsInOrder ==
    /\ FollowsStage2Steps
    /\ s2res.state = "returned"
       => /\ s2res.seg_volume
               = Append(s2calls[Len(s2calls)].img, s2calls[Len(s2calls)].fn)
          /\ s2calls[Len(s2calls)].mask = s2res.rg_seg
          /\ s2res.seg_volume # Enhanced

\* a run of stage 2 that returned
C16_Witness ==
    /\ s2res.state = "returned"
    /\ Len(s2calls) = 9
    /\ s2in.slice_where_to_pick_seeds > 0


(***************************************************************************)
(* Properties of the seed list and of the sampling, for the functions      *)
(* called alone and for stage 2 that calls them (checked under             *)
(* SpecSeeding)                                                            *)
(***************************************************************************)
\* list holds n seeds, the i-th being the triple [x_i, y_i, s]
IsSeedList(list, x, y, s, n) ==
    /\ Len(list) = n
    /\ \A i \in 1 .. n : /\ Len(list[i]) = 3
                         /\ list[i][1] = x[i]
                         /\ list[i][2] = y[i]
                         /\ list[i][3] = s

\* C17: for x and y arrays of length number_of_pixels and a slice index s,
\* create_seed_list returns number_of_pixels seeds, the i-th being
\* [x_i, y_i, s]; stage 2 passes the list made of the pixels it sampled and
\* of the slice index it received to the region growing.
C17_SeedListOfTriples ==
    /\ (/\ mcall.fn = "create_seed_list"
        /\ Len(mcall.x_pixels) = mcall.number_of_pixels
        /\ Len(mcall.y_pixels) = mcall.number_of_pixels)
       => \A k \in DOMAIN mlog :
            /\ mlog[k].exc = "none"
            /\ IsSeedList(mlog[k].value, mcall.x_pixels, mcall.y_pixels,
                          mcall.slice_idx, mcall.number_of_pixels)
    /\ \A i \in DOMAIN s2calls :
         s2calls[i].fn = "region_growing"
         => /\ IsSeedList(s2calls[i].seed, s2loc.x_pixels, s2loc.y_pixels,
                          s2in.slice_where_to_pick_seeds, 30)
            /\ \A j \in 1 .. 30 :
                 <<s2loc.x_pixels[j], s2loc.y_pixels[j]>> \in s2in.eroded.fg
            /\ \E j \in 1 .. i - 1 : s2calls[j].fn = "pick_random_pixels"

\* stage 2 grew from a list of seeds that differ in x and in y, on a slice
\* other than the first
C17_Witness ==
    /\ \E i \in DOMAIN s2calls : s2calls[i].fn = "region_growing"
    /\ s2in.slice_where_to_pick_seeds > 0
    /\ \E i, j \in 1 .. 30 :
         /\ s2loc.seed_list[i][1] # s2loc.seed_list[j][1]
         /\ s2loc.seed_list[i][2] # s2loc.seed_list[j][2]
         /\ s2loc.seed_list[i][1] # s2loc.seed_list[i][2]

\* create_seed_list, called alone, made a list of two seeds that differ
C17_WitnessCall ==
    /\ mcall.fn = "create_seed_list"
    /\ mcall.number_of_pixels = 2
    /\ Len(mlog) > 0
    /\ mlog[1].exc = "none"
    /\ mlog[1].value[1] # mlog[1].value[2]
    /\ mlog[1].value[1][1] # mlog[1].value[1][2]


\* the labelling of what the erosion left of the slice, and the labels the
\* sampling may select on it
ErodedComponents == ConnectedComponentsWithStats(s2in.eroded)

ErodedCandidates == ArgsortLastButOne(RowMax(ErodedComponents.stats))

\* the component stage 2 samples from holds fewer pixels than it asks for
TooFewPixelsLeft ==
    /\ ErodedCandidates # {}
    /\ \A l \in ErodedCandidates :
         Cardinality(ErodedComponents.labels[l]) < 30

PickDone ==
    s2pc \notin {"idle", "mean", "mask", "histogram", "erode", "pick"}

\* C20: pick_random_pixels fails with no sample when the selected component
\* holds fewer pixels than number_of_pixels; so stage 2 aborts, with no
\* region growing and no result, when the eroded slice leaves fewer than 30
\* pixels in the selected component.
C20_TooFewPixelsAborts ==
    /\ mcall.fn = "pick_random_pixels"
       => \A k \in DOMAIN mlog :
            (/\ mlog[k].exc # "IndexError"
             /\ Cardinality(LabelsOfCall[mlog[k].label])
                  < mcall.number_of_pixels)
            => /\ mlog[k].exc = "ValueError"
               /\ mlog[k].value = <<>>
    /\ (TooFewPixelsLeft /\ PickDone)
       => /\ s2pc = "done"
          /\ s2res.state = "raised"
          /\ s2res.exc = "ValueError"
          /\ s2res.seg_volume = <<>> /\ s2res.rg_seg = <<>>
          /\ s2loc.seed_list = <<>>
          /\ s2calls[Len(s2calls)].fn = "pick_random_pixels"
          /\ \A i \in DOMAIN s2calls : s2calls[i].fn # "region_growing"

\* stage 2 stopped at the sampling, on a slice that keeps 29 pixels
C20_Witness ==
    /\ Cardinality(s2in.eroded.fg) = 29
    /\ TooFewPixelsLeft
    /\ s2res.state = "raised"
    /\ Len(s2calls) = 5

\* pick_random_pixels, called alone, asked for two pixels of a component of
\* one
C20_WitnessCall ==
    /\ mcall.fn = "pick_random_pixels"
    /\ mcall.number_of_pixels = 2
    /\ Len(mlog) > 0
    /\ mlog[1].exc = "ValueError"
    /\ mlog[1].label # 0
    /\ Cardinality(LabelsOfCall[mlog[1].label]) = 1

====
